---- MODULE Spec2Model ----
(***************************************************************************)
(* Model of the quiz short compositor of cbse_shorts_automator:            *)
(* template_quiz.py (LayoutGaps, LayoutPositions, QuizTemplate.generate)   *)
(* and visual_effects_quiz.py (res_scale, set_resolution, the typewriter   *)
(* and option-card producers).                                             *)
(*                                                                         *)
(* Time is counted in ticks.  One second is TicksPerSecond ticks, chosen   *)
(* so that every quotient the code forms (0.9 * A / word_count, the 0.6 s  *)
(* slide, half seconds) is a whole number of ticks: the model follows the  *)
(* real-number value of the Python float expressions, not their rounding.  *)
(* Pixel values are integers, and res_scale truncates as int() does.       *)
(***************************************************************************)
EXTENDS Integers, Sequences, FiniteSets, TLC

\* ------------------------------------------------------------ bounds
\* Largest number of words of script['question_visual'].
MaxWords == 2

\* ------------------------------------------------------------ units
\* Every entry of USPContent.QUESTION_PREFIXES is two words.
PrefixWords == 2

MaxWordCount == MaxWords + PrefixWords

RECURSIVE Gcd(_, _)
Gcd(a, b) == IF b = 0 THEN a ELSE Gcd(b, a % b)

RECURSIVE LcmUpTo(_)
LcmUpTo(n) == IF n <= 1 THEN 1 ELSE (LcmUpTo(n - 1) * n) \div Gcd(LcmUpTo(n - 1), n)

TicksPerSecond == 20 * LcmUpTo(MaxWordCount)

\* n half seconds, n tenths of a second, n twentieths of a second, in ticks.
HalfSec(n) == n * (TicksPerSecond \div 2)
Tenth(n) == n * (TicksPerSecond \div 10)
Twentieth(n) == n * (TicksPerSecond \div 20)

\* Python's None for an optional number, and a key absent from a dict.
None == -1

\* Python truthiness of an optional number: None and 0 are both false.
Truthy(x) == x # None /\ x # 0

\* int(a / b) for b > 0: truncation toward zero.
TruncDiv(a, b) == IF a >= 0 THEN a \div b ELSE -((-a) \div b)

\* ------------------------------------------------------------ inputs
\* config['width'], config['height'] of a build.
Resolutions == {<<1080, 1920>>, <<720, 1280>>, <<540, 960>>}

\* The nine narration segments of audio_tasks, in timeline order.
SegOrder == <<"hook", "question", "opt_a", "opt_b", "opt_c", "opt_d",
              "think", "explanation", "cta">>

Segments == {SegOrder[i] : i \in 1..Len(SegOrder)}

\* Durations an AudioFileClip may report for each segment, in half seconds.
DurationChoices ==
    [hook |-> {0, 4}, question |-> {7, 2}, opt_a |-> {3}, opt_b |-> {3},
     opt_c |-> {3}, opt_d |-> {3}, think |-> {2, 7}, explanation |-> {9},
     cta |-> {5}]

\* ------------------------------------------------------------ state
VARIABLES
    pc,               \* position of QuizTemplate.generate, "idle" between builds
    vfx,              \* visual_effects_quiz module globals WIDTH, HEIGHT, FPS
    tq,               \* template_quiz module globals WIDTH, HEIGHT, FPS
    LayoutGaps,       \* class attributes of LayoutGaps
    LayoutPositions,  \* class attributes of LayoutPositions
    layout_call,      \* the last layout calculation: done, pip_y, pip_height
    aud,              \* duration of each synthesized segment, None while pending
    timing,           \* t_hook .. t_outro, total_dur of generate
    q_call,           \* arguments of the last create_typewriter_text call
    q_clip,           \* its result
    options_data,     \* the Options Set of the last create_options_sequence call
    opt_call,         \* its use_relative_y argument
    option_clips,     \* its result
    audio_list,       \* voice clips of generate's audio track
    validation,       \* result of the last validate_layout call
    timer_clips,      \* result of create_timer_animation
    reveal_call,      \* arguments of the last create_answer_reveal_animation call
    reveal_effects,   \* its result
    cta_call,         \* arguments of the last create_cta_banner call
    cta_banner,       \* its result
    clips,            \* generate's clips list, bottom layer first
    render,           \* what render_with_effects passed to write_videofile
    result,           \* what generate_short returned
    scale_call,       \* arguments and results of a direct res_scale call
    theme_call,       \* config['theme'] of the build and what get_theme returned
    timer_call,       \* arguments of the last create_timer_animation call
    outro_card,       \* the card create_outro built, and its size
    tts,              \* state of each synthesis task of the thread pool
    voice_mgr,        \* the VoiceManager: its Google engine and accounts
    voice_call,       \* the last generate_audio_with_specific_voice call
    sessions          \* two builds sharing the process, and what each observed

\* Results of the later producers of a build.
producerVars == <<timer_clips, reveal_call, reveal_effects, cta_call, cta_banner>>

\* The layer list of a build and its outcome.
buildVars == <<clips, render, result>>

\* The thread pool, the voice manager and the interleaved builds.
serviceVars == <<tts, voice_mgr, voice_call, sessions>>

\* What the later parts of the model record.
laterVars == <<theme_call, timer_call, outro_card, serviceVars>>

vars == <<pc, vfx, tq, LayoutGaps, LayoutPositions, layout_call, aud, timing,
          q_call, q_clip, options_data, opt_call, option_clips, audio_list,
          validation, producerVars, buildVars, scale_call, laterVars>>

\* ------------------------------------------------------------ resolution scaler
BASE_WIDTH == 1080
BASE_HEIGHT == 1920

\* res_scale rounding down (floor) instead of truncating toward zero.
res_scale_in_floor(g, value, dimension) ==
    IF dimension = "height" THEN (value * g.HEIGHT) \div BASE_HEIGHT
    ELSE IF dimension = "width" THEN (value * g.WIDTH) \div BASE_WIDTH
    ELSE IF dimension = "both"
         THEN IF g.WIDTH * BASE_HEIGHT <= g.HEIGHT * BASE_WIDTH
              THEN (value * g.WIDTH) \div BASE_WIDTH
              ELSE (value * g.HEIGHT) \div BASE_HEIGHT
    ELSE value

\* res_scale never returning less than one pixel.
res_scale_in_at_least_one(g, value, dimension) ==
    LET scaled ==
            IF dimension = "height" THEN TruncDiv(value * g.HEIGHT, BASE_HEIGHT)
            ELSE IF dimension = "width" THEN TruncDiv(value * g.WIDTH, BASE_WIDTH)
            ELSE IF dimension = "both"
                 THEN IF g.WIDTH * BASE_HEIGHT <= g.HEIGHT * BASE_WIDTH
                      THEN TruncDiv(value * g.WIDTH, BASE_WIDTH)
                      ELSE TruncDiv(value * g.HEIGHT, BASE_HEIGHT)
            ELSE value
    IN  IF scaled < 1 THEN 1 ELSE scaled

\* res_scale with the width ratio taken against the canonical height.
res_scale_in_width_by_height(g, value, dimension) ==
    IF dimension = "height" THEN TruncDiv(value * g.HEIGHT, BASE_HEIGHT)
    ELSE IF dimension = "width" THEN TruncDiv(value * g.WIDTH, BASE_HEIGHT)
    ELSE IF dimension = "both"
         THEN IF g.WIDTH * BASE_HEIGHT <= g.HEIGHT * BASE_WIDTH
              THEN TruncDiv(value * g.WIDTH, BASE_WIDTH)
              ELSE TruncDiv(value * g.HEIGHT, BASE_HEIGHT)
    ELSE value

\* res_scale(value, dimension) under the module globals g.
res_scale_in(g, value, dimension) ==
    IF dimension = "height" THEN TruncDiv(value * g.HEIGHT, BASE_HEIGHT)
    ELSE IF dimension = "width" THEN TruncDiv(value * g.WIDTH, BASE_WIDTH)
    ELSE IF dimension = "both"
         THEN IF g.WIDTH * BASE_HEIGHT <= g.HEIGHT * BASE_WIDTH
              THEN TruncDiv(value * g.WIDTH, BASE_WIDTH)
              ELSE TruncDiv(value * g.HEIGHT, BASE_HEIGHT)
    ELSE value

\* res_scale(value) with the default dimension, under the current globals.
res_scale(value) == res_scale_in(vfx, value, "height")

\* ------------------------------------------------------------ layout engine
\* LayoutGaps as the class statement leaves it, before any scale_all.
LayoutGapsDefault ==
    [PIP_TO_HOOK |-> 20, HOOK_TO_QUESTION |-> 30, QUESTION_TO_OPTIONS |-> 50,
     OPTION_HEIGHT |-> 100, OPTION_SPACING |-> 30, OPTIONS_TO_TIMER |-> 40,
     TIMER_LABEL_TO_BAR |-> 30, TIMER_BAR_HEIGHT |-> 50,
     OPTIONS_TO_EXPLANATION |-> 80]

\* LayoutGaps.scale_all(): every gap rescaled from its design value.
scale_all ==
    [PIP_TO_HOOK |-> res_scale(20), HOOK_TO_QUESTION |-> res_scale(30),
     QUESTION_TO_OPTIONS |-> res_scale(50), OPTION_HEIGHT |-> res_scale(100),
     OPTION_SPACING |-> res_scale(30), OPTIONS_TO_TIMER |-> res_scale(40),
     TIMER_LABEL_TO_BAR |-> res_scale(30), TIMER_BAR_HEIGHT |-> res_scale(50),
     OPTIONS_TO_EXPLANATION |-> res_scale(60)]

\* LayoutPositions as the class statement leaves it.
LayoutPositionsDefault ==
    [pip_y |-> 0, pip_height |-> 0, pip_bottom |-> 0, hook_y |-> 0,
     question_y |-> 0, options_start_y |-> 0, timer_label_y |-> 0,
     timer_bar_y |-> 0, explanation_y |-> 0, cta_y |-> 0]

\* The local option_4_bottom of LayoutPositions.calculate.
option_4_bottom(options_start_y, G) ==
    options_start_y + (G.OPTION_HEIGHT * 4) + (G.OPTION_SPACING * 3)

\* calculate with explanation_y taken from the top of the options block.
calculate_explanation_from_top(pip_y, pip_height, G) ==
    LET pip_bottom == pip_y + pip_height
        hook_y == pip_bottom + G.PIP_TO_HOOK
        question_y == hook_y + res_scale(130) + G.HOOK_TO_QUESTION
        options_start_y == question_y + res_scale(150) + G.QUESTION_TO_OPTIONS
        bottom4 == option_4_bottom(options_start_y, G)
        timer_label_y == bottom4 + G.OPTIONS_TO_TIMER
    IN  [pip_y |-> pip_y, pip_height |-> pip_height, pip_bottom |-> pip_bottom,
         hook_y |-> hook_y, question_y |-> question_y,
         options_start_y |-> options_start_y,
         timer_label_y |-> timer_label_y,
         timer_bar_y |-> timer_label_y + res_scale(80) + G.TIMER_LABEL_TO_BAR,
         explanation_y |-> options_start_y + G.OPTIONS_TO_EXPLANATION,
         cta_y |-> tq.HEIGHT - res_scale(420)]

\* calculate with the CTA placed below the timer bar instead of anchored.
calculate_cta_in_flow(pip_y, pip_height, G) ==
    LET pip_bottom == pip_y + pip_height
        hook_y == pip_bottom + G.PIP_TO_HOOK
        question_y == hook_y + res_scale(130) + G.HOOK_TO_QUESTION
        options_start_y == question_y + res_scale(150) + G.QUESTION_TO_OPTIONS
        bottom4 == option_4_bottom(options_start_y, G)
        timer_label_y == bottom4 + G.OPTIONS_TO_TIMER
        timer_bar_y == timer_label_y + res_scale(80) + G.TIMER_LABEL_TO_BAR
    IN  [pip_y |-> pip_y, pip_height |-> pip_height, pip_bottom |-> pip_bottom,
         hook_y |-> hook_y, question_y |-> question_y,
         options_start_y |-> options_start_y,
         timer_label_y |-> timer_label_y,
         timer_bar_y |-> timer_bar_y,
         explanation_y |-> bottom4 + G.OPTIONS_TO_EXPLANATION,
         cta_y |-> timer_bar_y + G.TIMER_BAR_HEIGHT + res_scale(420)]

\* LayoutPositions.calculate(pip_y, pip_height), reading the gaps G.
calculate(pip_y, pip_height, G) ==
    LET pip_bottom == pip_y + pip_height
        hook_y == pip_bottom + G.PIP_TO_HOOK
        question_y == hook_y + res_scale(130) + G.HOOK_TO_QUESTION
        options_start_y == question_y + res_scale(150) + G.QUESTION_TO_OPTIONS
        bottom4 == option_4_bottom(options_start_y, G)
        timer_label_y == bottom4 + G.OPTIONS_TO_TIMER
    IN  [pip_y |-> pip_y, pip_height |-> pip_height, pip_bottom |-> pip_bottom,
         hook_y |-> hook_y, question_y |-> question_y,
         options_start_y |-> options_start_y,
         timer_label_y |-> timer_label_y,
         timer_bar_y |-> timer_label_y + res_scale(80) + G.TIMER_LABEL_TO_BAR,
         explanation_y |-> bottom4 + G.OPTIONS_TO_EXPLANATION,
         cta_y |-> tq.HEIGHT - res_scale(420)]

\* ------------------------------------------------------------ timeline builder
THINK_TIME == 3 * TicksPerSecond
OUTRO_DURATION == 4 * TicksPerSecond

\* The timing step with the answer placed after the 'think' narration
\* instead of after the fixed pause.
Timing_think_narration(d) ==
    LET t_hook == 0
        t_q == t_hook + d["hook"]
        t_a == t_q + d["question"]
        t_b == t_a + d["opt_a"]
        t_c == t_b + d["opt_b"]
        t_d == t_c + d["opt_c"]
        t_think == t_d + d["opt_d"]
        t_ans == t_think + d["think"]
        t_cta == t_ans + d["explanation"]
        t_outro == t_cta + d["cta"]
    IN  [t_hook |-> t_hook, t_q |-> t_q, t_a |-> t_a, t_b |-> t_b, t_c |-> t_c,
         t_d |-> t_d, t_think |-> t_think, t_ans |-> t_ans, t_cta |-> t_cta,
         t_outro |-> t_outro, total_dur |-> t_outro + OUTRO_DURATION]

\* The timing step with option B started together with option A.
Timing_b_with_a(d) ==
    LET t_hook == 0
        t_q == t_hook + d["hook"]
        t_a == t_q + d["question"]
        t_b == t_a
        t_c == t_b + d["opt_a"] + d["opt_b"]
        t_d == t_c + d["opt_c"]
        t_think == t_d + d["opt_d"]
        t_ans == t_think + THINK_TIME
        t_cta == t_ans + d["explanation"]
        t_outro == t_cta + d["cta"]
    IN  [t_hook |-> t_hook, t_q |-> t_q, t_a |-> t_a, t_b |-> t_b, t_c |-> t_c,
         t_d |-> t_d, t_think |-> t_think, t_ans |-> t_ans, t_cta |-> t_cta,
         t_outro |-> t_outro, total_dur |-> t_outro + OUTRO_DURATION]

\* "2. Timing" of QuizTemplate.generate, from the durations d of the clips.
Timing(d) ==
    LET t_hook == 0
        t_q == t_hook + d["hook"]
        t_a == t_q + d["question"]
        t_b == t_a + d["opt_a"]
        t_c == t_b + d["opt_b"]
        t_d == t_c + d["opt_c"]
        t_think == t_d + d["opt_d"]
        t_ans == t_think + THINK_TIME
        t_cta == t_ans + d["explanation"]
        t_outro == t_cta + d["cta"]
    IN  [t_hook |-> t_hook, t_q |-> t_q, t_a |-> t_a, t_b |-> t_b, t_c |-> t_c,
         t_d |-> t_d, t_think |-> t_think, t_ans |-> t_ans, t_cta |-> t_cta,
         t_outro |-> t_outro, total_dur |-> t_outro + OUTRO_DURATION]

\* The timing record before the timing step has run.
NoTiming ==
    [t_hook |-> 0, t_q |-> 0, t_a |-> 0, t_b |-> 0, t_c |-> 0, t_d |-> 0,
     t_think |-> 0, t_ans |-> 0, t_cta |-> 0, t_outro |-> 0, total_dur |-> 0]

\* ------------------------------------------------------------ typewriter text
\* word_delay without the 10% reserved for the final hold.
word_delay_no_hold(audio_duration, word_count) ==
    audio_duration \div word_count

\* reveal_duration / word_count, with reveal_duration = audio_duration * 0.9.
word_delay(audio_duration, word_count) ==
    ((audio_duration * 9) \div 10) \div word_count

\* word_start of the clip of word i (0-indexed).
word_start(i, audio_duration, word_count, start_time) ==
    start_time + (i * word_delay(audio_duration, word_count))

\* word_duration as it was before the "FIXED" comment: every word stays
\* until the end of the segment.
word_duration_until_end(i, audio_duration, word_count, total_remaining_time) ==
    IF Truthy(total_remaining_time)
    THEN total_remaining_time - (i * word_delay(audio_duration, word_count))
    ELSE audio_duration - (i * word_delay(audio_duration, word_count))

\* word_duration with the final word held only for the audio, whatever
\* total_remaining_time is.
word_duration_audio_only(i, audio_duration, word_count, total_remaining_time) ==
    IF i < word_count - 1
    THEN word_delay(audio_duration, word_count)
    ELSE audio_duration - (i * word_delay(audio_duration, word_count))

\* word_duration of the clip of word i (0-indexed).
word_duration(i, audio_duration, word_count, total_remaining_time) ==
    IF i < word_count - 1
    THEN word_delay(audio_duration, word_count)
    ELSE IF Truthy(total_remaining_time)
         THEN total_remaining_time - (i * word_delay(audio_duration, word_count))
         ELSE audio_duration - (i * word_delay(audio_duration, word_count))

\* What create_typewriter_text returns for a text of word_count words, when
\* the TextClip constructions named by fails raise (fails.card for the
\* measured background card, fails.words for the word prefixes, 0-indexed):
\* None for an empty text or when nothing could be built, else the clips
\* list: the background card and one clip per word prefix, in order.
create_typewriter_text(word_count, audio_duration, start_time, total_remaining_time, fails) ==
    LET card == [built |-> word_count > 0 /\ ~fails.card,
                 start |-> start_time, duration |-> total_remaining_time]
        all_words == [k \in 1..word_count |->
            [i |-> k - 1,
             start |-> word_start(k - 1, audio_duration, word_count, start_time),
             duration |-> word_duration(k - 1, audio_duration, word_count,
                                        total_remaining_time)]]
        words == SelectSeq(all_words, LAMBDA c : c.i \notin fails.words)
    IN  [none |-> word_count = 0 \/ (~card.built /\ words = <<>>),
         card |-> card,
         words |-> words]

\* No TextClip construction fails.
NoFailure == [card |-> FALSE, words |-> {}]

\* The ways the TextClip constructions of a text of word_count words can fail.
TypewriterFailures(word_count) ==
    LET indices == 0..(word_count - 1)
    IN  [card : BOOLEAN,
         words : {{}, {0} \cap indices, {word_count - 1} \cap indices, indices}]

\* The arguments and the result before any call.
NoTypewriterCall ==
    [called |-> FALSE, word_count |-> 0, audio_duration |-> 0, start_time |-> 0,
     total_remaining_time |-> None, fails |-> NoFailure]

NoTypewriterClip ==
    [none |-> TRUE,
     card |-> [built |-> FALSE, start |-> 0, duration |-> None],
     words |-> <<>>]

\* ------------------------------------------------------------ option cards
SLIDE_DURATION == Tenth(6)

\* An entry of options_data; y_position is None when the key is absent.
Option(start_time, duration, is_correct, y_position) ==
    [start_time |-> start_time, duration |-> duration,
     is_correct |-> is_correct, y_position |-> y_position]

\* options_data of QuizTemplate.generate, from the timing T, the positions LP
\* and the gaps G.
OptionsData(T, LP, G) ==
    << Option(T.t_a, T.total_dur - T.t_a, FALSE, LP.options_start_y),
       Option(T.t_b, T.total_dur - T.t_b, FALSE,
              LP.options_start_y + G.OPTION_HEIGHT + G.OPTION_SPACING),
       Option(T.t_c, T.total_dur - T.t_c, FALSE,
              LP.options_start_y + (G.OPTION_HEIGHT + G.OPTION_SPACING) * 2),
       Option(T.t_d, T.total_dur - T.t_d, FALSE,
              LP.options_start_y + (G.OPTION_HEIGHT + G.OPTION_SPACING) * 3) >>

\* create_options_sequence with the card started at the nominal start time.
create_options_sequence_no_preroll(data, use_relative_y, failed) ==
    SelectSeq(
        [k \in 1..Len(data) |->
            [i |-> k - 1,
             start |-> data[k].start_time,
             duration |-> data[k].duration,
             from_left |-> ((k - 1) % 2 = 0),
             final_y |-> IF use_relative_y /\ data[k].y_position # None
                         THEN data[k].y_position
                         ELSE res_scale(1050) + ((k - 1) * res_scale(130)),
             OPT_WIDTH |-> vfx.WIDTH - res_scale(120)]],
        LAMBDA c : c.i \notin failed)

\* create_options_sequence with the stack position always recomputed locally.
create_options_sequence_local_y(data, use_relative_y, failed) ==
    SelectSeq(
        [k \in 1..Len(data) |->
            [i |-> k - 1,
             start |-> data[k].start_time - SLIDE_DURATION,
             duration |-> data[k].duration + SLIDE_DURATION,
             from_left |-> ((k - 1) % 2 = 0),
             final_y |-> res_scale(1050) + ((k - 1) * res_scale(130)),
             OPT_WIDTH |-> vfx.WIDTH - res_scale(120)]],
        LAMBDA c : c.i \notin failed)

\* The clips create_options_sequence returns: one per entry of data (entry k
\* is option i = k - 1) whose TextClip construction does not fail (failed
\* names the options whose construction raises), with its window, slide
\* direction, settled y and card width.
create_options_sequence(data, use_relative_y, failed) ==
    SelectSeq(
        [k \in 1..Len(data) |->
            [i |-> k - 1,
             start |-> data[k].start_time - SLIDE_DURATION,
             duration |-> data[k].duration + SLIDE_DURATION,
             from_left |-> ((k - 1) % 2 = 0),
             final_y |-> IF use_relative_y /\ data[k].y_position # None
                         THEN data[k].y_position
                         ELSE res_scale(1050) + ((k - 1) * res_scale(130)),
             OPT_WIDTH |-> vfx.WIDTH - res_scale(120)]],
        LAMBDA c : c.i \notin failed)

\* Positions are sampled every twentieth of a second, so the progress of the
\* 0.6 s slide is k / 12, and an x coordinate is reported times SlideScale,
\* the denominator of the eased offset.
SlideScale == 12 * 12 * 100

\* EasingFunctions.ease_out_elastic(k / 12, 1.08), times SlideScale.
ease_out_elastic(k) ==
    IF k = 0 THEN 0
    ELSE IF k = 12 THEN SlideScale
    ELSE k * (24 - k) * 108

\* slide_position(t) of the clip c, t ticks after the clip's start:
\* x (times SlideScale) and y of the card.
slide_position(t, c) ==
    IF t < SLIDE_DURATION
    THEN LET start_x == IF c.from_left THEN -c.OPT_WIDTH ELSE vfx.WIDTH
             final_x == (vfx.WIDTH - c.OPT_WIDTH) \div 2
         IN  [x |-> (start_x * SlideScale)
                     + ((final_x - start_x) * ease_out_elastic(t \div Twentieth(1))),
              y |-> c.final_y]
    ELSE [x |-> ((vfx.WIDTH - c.OPT_WIDTH) \div 2) * SlideScale,
          y |-> c.final_y]

\* ------------------------------------------------------------ audio track
\* audio_list of QuizTemplate.generate: each voice clip at its start time.
AudioList(T, d) ==
    << [name |-> "hook", start |-> T.t_hook, duration |-> d["hook"]],
       [name |-> "question", start |-> T.t_q, duration |-> d["question"]],
       [name |-> "opt_a", start |-> T.t_a, duration |-> d["opt_a"]],
       [name |-> "opt_b", start |-> T.t_b, duration |-> d["opt_b"]],
       [name |-> "opt_c", start |-> T.t_c, duration |-> d["opt_c"]],
       [name |-> "opt_d", start |-> T.t_d, duration |-> d["opt_d"]],
       [name |-> "think", start |-> T.t_think, duration |-> d["think"]],
       [name |-> "explanation", start |-> T.t_ans, duration |-> d["explanation"]],
       [name |-> "cta", start |-> T.t_cta, duration |-> d["cta"]] >>

\* create_timer_animation with every progress segment lasting only its own
\* tenth of the duration.
create_timer_animation_own_slot(start_time, duration, y_position, failed) ==
    LET segments == 10
        whole == duration \div TicksPerSecond
        bars == [k \in 1..segments |->
                    [kind |-> "segment", i |-> k - 1, number |-> None,
                     y |-> y_position,
                     start |-> start_time + ((duration * (k - 1)) \div segments),
                     duration |-> duration \div segments]]
        numbers == [k \in 1..whole |->
                    [kind |-> "numeral", i |-> k - 1, number |-> whole - (k - 1),
                     y |-> y_position - res_scale(150),
                     start |-> start_time + ((k - 1) * TicksPerSecond),
                     duration |-> TicksPerSecond]]
    IN  bars \o SelectSeq(numbers, LAMBDA c : c.i \notin failed)

\* create_timer_animation with the numerals counting up from 1.
create_timer_animation_count_up(start_time, duration, y_position, failed) ==
    LET segments == 10
        whole == duration \div TicksPerSecond
        bars == [k \in 1..segments |->
                    [kind |-> "segment", i |-> k - 1, number |-> None,
                     y |-> y_position,
                     start |-> start_time + ((duration * (k - 1)) \div segments),
                     duration |-> duration - ((duration * (k - 1)) \div segments)]]
        numbers == [k \in 1..whole |->
                    [kind |-> "numeral", i |-> k - 1, number |-> k,
                     y |-> y_position - res_scale(150),
                     start |-> start_time + ((k - 1) * TicksPerSecond),
                     duration |-> TicksPerSecond]]
    IN  bars \o SelectSeq(numbers, LAMBDA c : c.i \notin failed)

\* ------------------------------------------------------------ countdown timer
\* The clips create_timer_animation returns: ten progress segments, then one
\* numeral per whole second (failed names the numerals, by loop index, whose
\* TextClip construction raises).
create_timer_animation(start_time, duration, y_position, failed) ==
    LET segments == 10
        whole == duration \div TicksPerSecond
        bars == [k \in 1..segments |->
                    [kind |-> "segment", i |-> k - 1, number |-> None,
                     y |-> y_position,
                     start |-> start_time + ((duration * (k - 1)) \div segments),
                     duration |-> duration - ((duration * (k - 1)) \div segments)]]
        numbers == [k \in 1..whole |->
                    [kind |-> "numeral", i |-> k - 1, number |-> whole - (k - 1),
                     y |-> y_position - res_scale(150),
                     start |-> start_time + ((k - 1) * TicksPerSecond),
                     duration |-> TicksPerSecond]]
    IN  bars \o SelectSeq(numbers, LAMBDA c : c.i \notin failed)

\* ------------------------------------------------------------ answer reveal
\* y of entry k (1-indexed) of an Options Set: opt.get('y_position',
\* res_scale(1050)).
EntryY(data, k) ==
    IF data[k].y_position # None THEN data[k].y_position ELSE res_scale(1050)

\* create_answer_reveal_animation with the glow placed on the locally
\* computed stack position of the correct option.
create_answer_reveal_animation_local_y(correct_idx, data, reveal_start_time, total_remaining_time, confetti_y) ==
    LET correct_y == res_scale(1050) + (correct_idx * res_scale(130))
        glow == [kind |-> "glow", i |-> correct_idx, y |-> correct_y,
                 start |-> reveal_start_time + Twentieth(1),
                 duration |-> total_remaining_time]
        fades == [k \in 1..Len(data) |->
                    [kind |-> "fade", i |-> k - 1, y |-> EntryY(data, k),
                     start |-> reveal_start_time + Twentieth(1),
                     duration |-> total_remaining_time]]
        confetti == [k \in 1..20 |->
                    [kind |-> "confetti", i |-> k - 1,
                     y |-> IF confetti_y = None THEN correct_y ELSE confetti_y,
                     start |-> reveal_start_time + Tenth(3),
                     duration |-> Tenth(12)]]
    IN  <<glow>> \o SelectSeq(fades, LAMBDA c : c.i # correct_idx) \o confetti

\* The clips create_answer_reveal_animation returns, correct_idx being
\* ord(correct_option_letter) - ord('A'): the glow over the correct option,
\* a dimming overlay for every other entry of the Options Set, and twenty
\* confetti particles.
create_answer_reveal_animation(correct_idx, data, reveal_start_time, total_remaining_time, confetti_y) ==
    LET correct_y == IF Len(data) > correct_idx
                     THEN EntryY(data, correct_idx + 1)
                     ELSE res_scale(1050)
        glow == [kind |-> "glow", i |-> correct_idx, y |-> correct_y,
                 start |-> reveal_start_time + Twentieth(1),
                 duration |-> total_remaining_time]
        fades == [k \in 1..Len(data) |->
                    [kind |-> "fade", i |-> k - 1, y |-> EntryY(data, k),
                     start |-> reveal_start_time + Twentieth(1),
                     duration |-> total_remaining_time]]
        confetti == [k \in 1..20 |->
                    [kind |-> "confetti", i |-> k - 1,
                     y |-> IF confetti_y = None THEN correct_y ELSE confetti_y,
                     start |-> reveal_start_time + Tenth(3),
                     duration |-> Tenth(12)]]
    IN  <<glow>> \o SelectSeq(fades, LAMBDA c : c.i # correct_idx) \o confetti

NoRevealCall == [called |-> FALSE, correct_idx |-> 0, total_remaining_time |-> None]

\* ------------------------------------------------------------ CTA banner
\* create_cta_banner with the background built for the social half only.
create_cta_banner_social_half(social_start, social_duration, link_start, link_duration, style, cta_y, fails) ==
    LET banner_y == IF cta_y # None THEN cta_y ELSE res_scale(1300)
        total_duration == link_start - social_start
        border == [kind |-> "border", y |-> banner_y, start |-> social_start,
                   duration |-> total_duration]
        banner_bg == [kind |-> "banner_bg", y |-> banner_y, start |-> social_start,
                      duration |-> total_duration]
        social_clip == [kind |-> "social", y |-> banner_y, start |-> social_start,
                        duration |-> link_start - social_start]
        link_clip == [kind |-> "link", y |-> banner_y, start |-> link_start,
                      duration |-> link_duration]
        made == IF style = "full-banner"
                THEN <<border, banner_bg>>
                     \o (IF fails.social THEN <<>> ELSE <<social_clip>>)
                     \o (IF fails.link THEN <<>> ELSE <<link_clip>>)
                ELSE <<>>
    IN  [none |-> made = <<>>, clips |-> made]

\* What create_cta_banner returns: None when no clip was made (any style
\* other than 'full-banner'), else the composite of border, background and
\* the two texts (fails names the texts whose TextClip construction raises).
create_cta_banner(social_start, social_duration, link_start, link_duration, style, cta_y, fails) ==
    LET banner_y == IF cta_y # None THEN cta_y ELSE res_scale(1300)
        total_duration == (link_start + link_duration) - social_start
        border == [kind |-> "border", y |-> banner_y, start |-> social_start,
                   duration |-> total_duration]
        banner_bg == [kind |-> "banner_bg", y |-> banner_y, start |-> social_start,
                      duration |-> total_duration]
        social_clip == [kind |-> "social", y |-> banner_y, start |-> social_start,
                        duration |-> link_start - social_start]
        link_clip == [kind |-> "link", y |-> banner_y, start |-> link_start,
                      duration |-> link_duration]
        made == IF style = "full-banner"
                THEN <<border, banner_bg>>
                     \o (IF fails.social THEN <<>> ELSE <<social_clip>>)
                     \o (IF fails.link THEN <<>> ELSE <<link_clip>>)
                ELSE <<>>
    IN  [none |-> made = <<>>, clips |-> made]

NoCtaCall ==
    [called |-> FALSE, social_start |-> 0, social_duration |-> 0,
     link_start |-> 0, link_duration |-> 0, style |-> "full-banner"]

NoCtaBanner == [none |-> TRUE, clips |-> <<>>]

\* The ways the two TextClip constructions of the banner can fail.
CtaFailures == [social : BOOLEAN, link : BOOLEAN]

\* ------------------------------------------------------------ layout validation
\* The seven entries of validate_layout's checks dict: the position compared
\* and the bound it is compared with (HEIGHT is template_quiz's).
LayoutChecks(LP) ==
    << [name |-> "PIP top", pos |-> LP.pip_y, min_pos |-> 0],
       [name |-> "Hook", pos |-> LP.hook_y, min_pos |-> LP.pip_bottom],
       [name |-> "Question", pos |-> LP.question_y,
        min_pos |-> LP.hook_y + res_scale(130)],
       [name |-> "Options", pos |-> LP.options_start_y,
        min_pos |-> LP.question_y + res_scale(150)],
       [name |-> "Timer", pos |-> LP.timer_bar_y,
        min_pos |-> LP.options_start_y + res_scale(500)],
       [name |-> "CTA", pos |-> LP.cta_y, min_pos |-> tq.HEIGHT - res_scale(500)],
       [name |-> "Bottom safe", pos |-> LP.timer_bar_y + res_scale(50),
        min_pos |-> tq.HEIGHT - res_scale(400)] >>

\* validate_layout(): a warning for every check with pos < min_pos and one
\* for every check with pos > HEIGHT; the result is len(warnings) == 0.
validate_layout(LP) ==
    LET checks == LayoutChecks(LP)
        warnings ==
            {<<checks[j].name, "below min">> :
                j \in {i \in 1..Len(checks) : checks[i].pos < checks[i].min_pos}}
            \cup
            {<<checks[j].name, "off-screen">> :
                j \in {i \in 1..Len(checks) : checks[i].pos > tq.HEIGHT}}
    IN  [done |-> TRUE, ok |-> warnings = {}, warnings |-> warnings]

NoValidation == [done |-> FALSE, ok |-> TRUE, warnings |-> {}]

\* ------------------------------------------------------------ layer list
\* An entry of generate's clips list: what it is, and its window.
Layer(kind, start, duration) ==
    [kind |-> kind, none |-> FALSE, start |-> start, duration |-> duration]

\* A None entry of the clips list, from the producer of the named layer.
NullLayer(kind) == [kind |-> kind, none |-> TRUE, start |-> 0, duration |-> 0]

\* One entry per clip of a producer's list (clips.extend).
Layers(kind, produced) ==
    [k \in 1..Len(produced) |->
        Layer(kind, produced[k].start, produced[k].duration)]

\* Latest end of the clips of a composite, None if one has no duration.
RECURSIVE LatestEnd(_)
LatestEnd(inner) ==
    IF inner = <<>> THEN 0
    ELSE LET rest == LatestEnd(Tail(inner))
             c == Head(inner)
         IN  IF c.duration = None \/ rest = None THEN None
             ELSE IF c.start + c.duration >= rest THEN c.start + c.duration
             ELSE rest

\* A CompositeVideoClip of the inner clips: it starts at 0 and lasts until the
\* latest end.
CompositeLayer(kind, inner) == Layer(kind, 0, LatestEnd(inner))

\* The clips create_typewriter_text composed: the card if built, then words.
TypewriterInner(typed) ==
    (IF typed.card.built THEN <<typed.card>> ELSE <<>>) \o typed.words

\* clips.append(force_rgb(q_clip)): the question layer, or None, is appended.
append_question(layers, typed) ==
    Append(layers, IF typed.none THEN NullLayer("question")
                   ELSE CompositeLayer("question", TypewriterInner(typed)))

\* The CTA banner put under every other layer.
append_cta_at_bottom(layers, banner) ==
    IF banner.none THEN layers
    ELSE <<CompositeLayer("cta", banner.clips)>> \o layers

\* `if cta_banner: clips.append(cta_banner)`.
append_cta(layers, banner) ==
    IF banner.none THEN layers
    ELSE Append(layers, CompositeLayer("cta", banner.clips))

\* The twelve flashing timer labels, a quarter of a second each.
TimerLabels(t_think) ==
    [k \in 1..((THINK_TIME * 4) \div TicksPerSecond) |->
        Layer("timer_label", t_think + ((k - 1) * (TicksPerSecond \div 4)),
              TicksPerSecond \div 4)]

\* ------------------------------------------------------------ later records
NoTimerCall == [called |-> FALSE, start_time |-> 0, duration |-> 0]

\* WIDTH and HEIGHT of shorts_engine, which nothing assigns again.
shorts_engine_WIDTH == 1080
shorts_engine_HEIGHT == 1920

NoOutroCard == [built |-> FALSE, width |-> 0, height |-> 0]

\* No synthesis task has started.
NoTasks == [k \in Segments |-> "queued"]

\* No VoiceManager exists yet, and none of its methods was called.
NoVoiceManager == [created |-> FALSE, google_engine |-> FALSE, google_accounts |-> 0]

NoVoiceCall ==
    [called |-> FALSE, voice_in |-> "google", provider |-> "google",
     account_available |-> FALSE, google_outcome |-> "none",
     edge_outcome |-> "none", google_tried |-> FALSE, edge_tried |-> FALSE,
     outcome |-> "none"]

\* Two builds in one process, neither started.
SessionIds == {1, 2}

NoSession ==
    [pc |-> "idle", width |-> 0, height |-> 0,
     seen |-> [canvas |-> <<0, 0>>, pip_y |-> 0, question_y |-> 0,
               cta_y |-> 0, card_start_y |-> 0]]

NoSessions == [s \in SessionIds |-> NoSession]

\* ------------------------------------------------------------ themes
\* The keys of the THEMES table.
ThemeNames ==
    {"energetic_yellow", "calm_blue", "vibrant_purple", "fresh_green",
     "classic_red"}

\* config has no 'theme' key.
NoThemeKey == "absent"

\* get_theme returning nothing for a name that is not in the table.
get_theme_strict(theme_name) ==
    IF theme_name \in ThemeNames THEN theme_name ELSE "none"

\* get_theme: THEMES.get(theme_name, THEMES['energetic_yellow']); a theme is
\* identified by its key.
get_theme(theme_name) ==
    IF theme_name \in ThemeNames THEN theme_name ELSE "energetic_yellow"

NoThemeCall == [called |-> FALSE, name |-> NoThemeKey, resolved |-> "none"]

\* ------------------------------------------------------------ initial state
NoAudio == [k \in Segments |-> None]

NoLayoutCall == [done |-> FALSE, pip_y |-> 0, pip_height |-> 0]

NoOptionsCall == [called |-> FALSE, use_relative_y |-> TRUE, failed |-> {}]

\* fps=24, the default of set_resolution's parameter.
DEFAULT_FPS == 24

\* The module globals as the import leaves them.
DefaultResolution == [WIDTH |-> 1080, HEIGHT |-> 1920, FPS |-> 24]

\* template_quiz's own WIDTH and HEIGHT; its FPS exists only once generate
\* has assigned it.
TemplateDefaults == [WIDTH |-> 1080, HEIGHT |-> 1920, FPS |-> None]

\* shorts_engine's FPS: `from visual_effects_quiz import FPS` binds the value
\* the name has when shorts_engine is imported, and nothing rebinds it.
shorts_engine_FPS == DefaultResolution.FPS

NoRender == [done |-> FALSE, fps |-> 0]

NoResult == [returned |-> FALSE, success |-> FALSE, error |-> "none"]

\* No res_scale call was made.
NoScaleCall ==
    [called |-> FALSE, a |-> 0, b |-> 0, k |-> 0, dimension |-> "height",
     of_a |-> 0, of_b |-> 0, of_sum |-> 0, of_multiple |-> 0]

Init ==
    /\ pc = "idle"
    /\ vfx = DefaultResolution
    /\ tq = TemplateDefaults
    /\ LayoutGaps = LayoutGapsDefault
    /\ LayoutPositions = LayoutPositionsDefault
    /\ layout_call = NoLayoutCall
    /\ validation = NoValidation
    /\ aud = NoAudio
    /\ timing = NoTiming
    /\ q_call = NoTypewriterCall
    /\ q_clip = NoTypewriterClip
    /\ options_data = <<>>
    /\ opt_call = NoOptionsCall
    /\ option_clips = <<>>
    /\ timer_clips = <<>>
    /\ reveal_call = NoRevealCall
    /\ reveal_effects = <<>>
    /\ cta_call = NoCtaCall
    /\ cta_banner = NoCtaBanner
    /\ clips = <<>>
    /\ audio_list = <<>>
    /\ render = NoRender
    /\ result = NoResult
    /\ scale_call = NoScaleCall
    /\ theme_call = NoThemeCall
    /\ timer_call = NoTimerCall
    /\ outro_card = NoOutroCard
    /\ tts = NoTasks
    /\ voice_mgr = NoVoiceManager
    /\ voice_call = NoVoiceCall
    /\ sessions = NoSessions

\* ------------------------------------------------------------ generate
\* set_resolution(width, height, fps): the new visual_effects_quiz globals.
set_resolution(width, height, fps) ==
    [WIDTH |-> width, HEIGHT |-> height, FPS |-> fps]

\* "RESOLUTION SETUP" of generate: set_resolution(target_width,
\* target_height), then the template_quiz globals; the locals of the new
\* call are fresh.  Then the theme: get_theme(config.get('theme',
\* random.choice(theme_options))), theme_name being config's 'theme' or
\* NoThemeKey and random_theme the choice random makes.
GenerateSetup(target_width, target_height, target_fps, theme_name, random_theme) ==
    /\ pc = "idle"
    /\ vfx' = set_resolution(target_width, target_height, DEFAULT_FPS)
    /\ tq' = [WIDTH |-> target_width, HEIGHT |-> target_height,
              FPS |-> target_fps]
    /\ layout_call' = NoLayoutCall
    /\ validation' = NoValidation
    /\ aud' = NoAudio
    /\ timing' = NoTiming
    /\ q_call' = NoTypewriterCall
    /\ q_clip' = NoTypewriterClip
    /\ options_data' = <<>>
    /\ opt_call' = NoOptionsCall
    /\ option_clips' = <<>>
    /\ audio_list' = <<>>
    /\ theme_call' = [called |-> TRUE, name |-> theme_name,
                      resolved |-> get_theme(IF theme_name = NoThemeKey
                                             THEN random_theme
                                             ELSE theme_name)]
    /\ pc' = "audio"
    /\ UNCHANGED <<LayoutGaps, LayoutPositions, producerVars, buildVars,
                   scale_call, timer_call, outro_card, serviceVars>>

\* An exception leaves generate; generate_short catches it and returns
\* {'success': False, 'error': ...}; error names the exception's kind.
Raised(error) == [returned |-> TRUE, success |-> FALSE, error |-> error]

\* ThreadPoolExecutor(max_workers=5): tasks start in submission order, at
\* most max_workers of them unfinished at a time.
max_workers == 5

\* Position of segment k's task in the order of submission.
SubmitIndex(k) == CHOOSE i \in 1..Len(SegOrder) : SegOrder[i] = k

\* One started synthesis task completes (as_completed yields it) and its clip
\* reports the duration d half seconds.
SynthesizeAudio(k, d) ==
    /\ pc = "audio"
    /\ aud[k] = None
    /\ SubmitIndex(k) <= max_workers + Cardinality({j \in Segments : aud[j] # None})
    /\ aud' = [aud EXCEPT ![k] = HalfSec(d)]
    /\ UNCHANGED <<pc, vfx, tq, LayoutGaps, LayoutPositions, layout_call,
                   validation, timing, q_call, q_clip, options_data, opt_call,
                   option_clips, audio_list, producerVars, buildVars,
                   scale_call, laterVars>>

\* The same pool, task by task.  A worker takes the next submitted task when
\* fewer than max_workers tasks are running; the pool keeps taking tasks
\* while the `with` block is being left.
StartTask(k) ==
    /\ pc \in {"audio", "aborting"}
    /\ tts[k] = "queued"
    /\ \A j \in Segments : SubmitIndex(j) < SubmitIndex(k) => tts[j] # "queued"
    /\ Cardinality({j \in Segments : tts[j] = "running"}) < max_workers
    /\ tts' = [tts EXCEPT ![k] = "running"]
    /\ UNCHANGED <<pc, vfx, tq, LayoutGaps, LayoutPositions, layout_call,
                   validation, aud, timing, q_call, q_clip, options_data,
                   opt_call, option_clips, audio_list, producerVars, buildVars,
                   scale_call, theme_call, timer_call, outro_card, voice_mgr,
                   voice_call, sessions>>

\* generate_single_audio returns (ok) or generate_audio_with_specific_voice
\* raises in it.
FinishTask(k, ok) ==
    /\ pc \in {"audio", "aborting"}
    /\ tts[k] = "running"
    /\ tts' = [tts EXCEPT ![k] = IF ok THEN "done" ELSE "raised"]
    /\ UNCHANGED <<pc, vfx, tq, LayoutGaps, LayoutPositions, layout_call,
                   validation, aud, timing, q_call, q_clip, options_data,
                   opt_call, option_clips, audio_list, producerVars, buildVars,
                   scale_call, theme_call, timer_call, outro_card, voice_mgr,
                   voice_call, sessions>>

\* as_completed yields a task that returned: its path is recorded, and its
\* clip will report d half seconds.
CollectResult(k, d) ==
    /\ pc = "audio"
    /\ tts[k] = "done"
    /\ aud[k] = None
    /\ aud' = [aud EXCEPT ![k] = HalfSec(d)]
    /\ UNCHANGED <<pc, vfx, tq, LayoutGaps, LayoutPositions, layout_call,
                   validation, timing, q_call, q_clip, options_data, opt_call,
                   option_clips, audio_list, producerVars, buildVars,
                   scale_call, laterVars>>

\* The failed task's exception taken for an empty clip.
CollectFailure_swallowed(k) ==
    /\ pc = "audio"
    /\ tts[k] = "raised"
    /\ aud[k] = None
    /\ aud' = [aud EXCEPT ![k] = 0]
    /\ UNCHANGED <<pc, vfx, tq, LayoutGaps, LayoutPositions, layout_call,
                   validation, timing, q_call, q_clip, options_data, opt_call,
                   option_clips, audio_list, producerVars, buildVars,
                   scale_call, laterVars>>

\* as_completed yields a task that raised: future.result() raises again and
\* the `with` block is left.
CollectFailure(k) ==
    /\ pc = "audio"
    /\ tts[k] = "raised"
    /\ aud[k] = None
    /\ aud' = aud
    /\ pc' = "aborting"
    /\ UNCHANGED <<vfx, tq, LayoutGaps, LayoutPositions, layout_call,
                   validation, timing, q_call, q_clip, options_data, opt_call,
                   option_clips, audio_list, producerVars, buildVars,
                   scale_call, laterVars>>

\* Leaving the `with` block waits for every task (shutdown(wait=True)); then
\* the exception leaves generate.
PoolShutdown ==
    /\ pc = "aborting"
    /\ \A k \in Segments : tts[k] \in {"done", "raised"}
    /\ pc' = "failed"
    /\ result' = Raised("TTS")
    /\ UNCHANGED <<vfx, tq, LayoutGaps, LayoutPositions, layout_call,
                   validation, aud, timing, q_call, q_clip, options_data,
                   opt_call, option_clips, audio_list, producerVars, clips,
                   render, scale_call, laterVars>>

\* "2. Timing", once all nine clips are loaded.
TimingStep ==
    /\ pc = "audio"
    /\ \A k \in Segments : aud[k] # None
    /\ timing' = Timing(aud)
    /\ pc' = "layout"
    /\ UNCHANGED <<vfx, tq, LayoutGaps, LayoutPositions, layout_call,
                   validation, aud, q_call, q_clip, options_data, opt_call,
                   option_clips, audio_list, producerVars, buildVars,
                   scale_call, laterVars>>

\* PIP_Y, PIP_HEIGHT, LayoutGaps.scale_all(), LayoutPositions.calculate and
\* validate_layout, whose result only decides about a printed hint.
LayoutStep ==
    /\ pc = "layout"
    /\ LayoutGaps' = scale_all
    /\ LayoutPositions' = calculate(res_scale(150), res_scale(495), scale_all)
    /\ layout_call' = [done |-> TRUE, pip_y |-> res_scale(150),
                       pip_height |-> res_scale(495)]
    /\ validation' = validate_layout(
                         calculate(res_scale(150), res_scale(495), scale_all))
    /\ pc' = "hook"
    /\ UNCHANGED <<vfx, tq, aud, timing, q_call, q_clip, options_data, opt_call,
                   option_clips, audio_list, producerVars, buildVars,
                   scale_call, laterVars>>

\* "Create VFX layers" and the hook banner: clips = [backdrop, pip], then the
\* hook TextClip, built outside any try (hook_fails: its construction raises).
HookStep(hook_fails) ==
    /\ pc = "hook"
    /\ IF hook_fails
       THEN /\ pc' = "failed"
            /\ result' = Raised("TextClip")
            /\ clips' = << Layer("backdrop", 0, timing.total_dur),
                           Layer("pip", 0, timing.total_dur) >>
       ELSE /\ pc' = "question"
            /\ result' = result
            /\ clips' = << Layer("backdrop", 0, timing.total_dur),
                           Layer("pip", 0, timing.total_dur),
                           Layer("hook", 0, aud["hook"]) >>
    /\ UNCHANGED <<vfx, tq, LayoutGaps, LayoutPositions, layout_call,
                   validation, aud, timing, q_call, q_clip, options_data,
                   opt_call, option_clips, audio_list, producerVars, render,
                   scale_call, laterVars>>

\* The question layer: the enhanced question has the prefix's words and the n
\* words of script['question_visual'].
QuestionStep(n, fails) ==
    /\ pc = "question"
    /\ q_call' = [called |-> TRUE, word_count |-> PrefixWords + n,
                  audio_duration |-> aud["question"], start_time |-> timing.t_q,
                  total_remaining_time |-> timing.total_dur - timing.t_q,
                  fails |-> fails]
    /\ q_clip' = create_typewriter_text(PrefixWords + n, aud["question"],
                     timing.t_q, timing.total_dur - timing.t_q, fails)
    /\ clips' = append_question(clips,
                    create_typewriter_text(PrefixWords + n, aud["question"],
                        timing.t_q, timing.total_dur - timing.t_q, fails))
    /\ pc' = "options"
    /\ UNCHANGED <<vfx, tq, LayoutGaps, LayoutPositions, layout_call,
                   validation, aud, timing, options_data, opt_call,
                   option_clips, audio_list, producerVars, render, result,
                   scale_call, laterVars>>

\* The options layer: options_data, then create_options_sequence.
OptionsStep(failed) ==
    /\ pc = "options"
    /\ options_data' = OptionsData(timing, LayoutPositions, LayoutGaps)
    /\ opt_call' = [called |-> TRUE, use_relative_y |-> TRUE, failed |-> failed]
    /\ option_clips' = create_options_sequence(
                           OptionsData(timing, LayoutPositions, LayoutGaps),
                           TRUE, failed)
    /\ clips' = clips \o Layers("option",
                    create_options_sequence(
                        OptionsData(timing, LayoutPositions, LayoutGaps),
                        TRUE, failed))
    /\ pc' = "timer"
    /\ UNCHANGED <<vfx, tq, LayoutGaps, LayoutPositions, layout_call,
                   validation, aud, timing, q_call, q_clip, audio_list,
                   producerVars, render, result, scale_call, laterVars>>

\* The countdown timer, then the flashing timer labels, whose TextClip is
\* built outside any try (label_fails: its construction raises).
TimerStep(failed, label_fails) ==
    /\ pc = "timer"
    /\ timer_clips' = create_timer_animation(timing.t_think, THINK_TIME,
                          LayoutPositions.timer_bar_y, failed)
    /\ timer_call' = [called |-> TRUE, start_time |-> timing.t_think,
                      duration |-> THINK_TIME]
    /\ IF label_fails
       THEN /\ pc' = "failed"
            /\ result' = Raised("TextClip")
            /\ clips' = clips \o Layers("timer",
                            create_timer_animation(timing.t_think, THINK_TIME,
                                LayoutPositions.timer_bar_y, failed))
       ELSE /\ pc' = "reveal"
            /\ result' = result
            /\ clips' = clips
                        \o Layers("timer",
                               create_timer_animation(timing.t_think, THINK_TIME,
                                   LayoutPositions.timer_bar_y, failed))
                        \o TimerLabels(timing.t_think)
    /\ UNCHANGED <<vfx, tq, LayoutGaps, LayoutPositions, layout_call,
                   validation, aud, timing, q_call, q_clip, options_data,
                   opt_call, option_clips, audio_list, reveal_call,
                   reveal_effects, cta_call, cta_banner, render, scale_call,
                   theme_call, outro_card, serviceVars>>

\* The answer reveal for script['correct_opt'] = chr(ord('A') + correct_idx),
\* then the summary card and the shine sweep.
RevealStep(correct_idx) ==
    /\ pc = "reveal"
    /\ reveal_call' = [called |-> TRUE, correct_idx |-> correct_idx,
                       total_remaining_time |-> timing.total_dur - timing.t_ans]
    /\ reveal_effects' = create_answer_reveal_animation(correct_idx,
                             options_data, timing.t_ans,
                             timing.total_dur - timing.t_ans,
                             LayoutPositions.question_y)
    /\ clips' = clips
                \o Layers("reveal",
                       create_answer_reveal_animation(correct_idx,
                           options_data, timing.t_ans,
                           timing.total_dur - timing.t_ans,
                           LayoutPositions.question_y))
                \o << Layer("summary", timing.t_ans, aud["explanation"]),
                      Layer("shine", timing.t_ans + Tenth(2), Tenth(5)) >>
    /\ pc' = "cta"
    /\ UNCHANGED <<vfx, tq, LayoutGaps, LayoutPositions, layout_call,
                   validation, aud, timing, q_call, q_clip, options_data,
                   opt_call, option_clips, audio_list, timer_clips, cta_call,
                   cta_banner, render, result, scale_call, laterVars>>

\* The split CTA banner over the two halves of the 'cta' narration.
CtaStep(fails) ==
    /\ pc = "cta"
    /\ cta_call' = [called |-> TRUE,
                    social_start |-> timing.t_ans + aud["explanation"],
                    social_duration |-> aud["cta"] \div 2,
                    link_start |-> timing.t_ans + aud["explanation"]
                                   + (aud["cta"] \div 2),
                    link_duration |-> aud["cta"] \div 2,
                    style |-> "full-banner"]
    /\ cta_banner' = create_cta_banner(timing.t_ans + aud["explanation"],
                         aud["cta"] \div 2,
                         timing.t_ans + aud["explanation"] + (aud["cta"] \div 2),
                         aud["cta"] \div 2, "full-banner",
                         LayoutPositions.cta_y, fails)
    /\ clips' = append_cta(clips,
                    create_cta_banner(timing.t_ans + aud["explanation"],
                        aud["cta"] \div 2,
                        timing.t_ans + aud["explanation"] + (aud["cta"] \div 2),
                        aud["cta"] \div 2, "full-banner",
                        LayoutPositions.cta_y, fails))
    /\ pc' = "outro"
    /\ UNCHANGED <<vfx, tq, LayoutGaps, LayoutPositions, layout_call,
                   validation, aud, timing, q_call, q_clip, options_data,
                   opt_call, option_clips, audio_list, timer_clips,
                   reveal_call, reveal_effects, render, result, scale_call, laterVars>>

\* engine.create_outro(...).set_start(t_outro): a white card of
\* shorts_engine's WIDTH x HEIGHT with the logo and the channel name; the
\* TextClip that is built last in either branch is outside any handler
\* (text_fails: its construction raises).
OutroStep(text_fails) ==
    /\ pc = "outro"
    /\ IF text_fails
       THEN /\ pc' = "failed"
            /\ result' = Raised("TextClip")
            /\ clips' = clips
            /\ outro_card' = outro_card
       ELSE /\ pc' = "mix"
            /\ result' = result
            /\ clips' = Append(clips,
                               Layer("outro", timing.t_outro, OUTRO_DURATION))
            /\ outro_card' = [built |-> TRUE, width |-> shorts_engine_WIDTH,
                              height |-> shorts_engine_HEIGHT]
    /\ UNCHANGED <<vfx, tq, LayoutGaps, LayoutPositions, layout_call,
                   validation, aud, timing, q_call, q_clip, options_data,
                   opt_call, option_clips, audio_list, producerVars, render,
                   scale_call, theme_call, timer_call, serviceVars>>

\* The voice clips are placed on the audio track.
AudioMixStep ==
    /\ pc = "mix"
    /\ audio_list' = AudioList(timing, aud)
    /\ pc' = "render"
    /\ UNCHANGED <<vfx, tq, LayoutGaps, LayoutPositions, layout_call,
                   validation, aud, timing, q_call, q_clip, options_data,
                   opt_call, option_clips, producerVars, buildVars,
                   scale_call, laterVars>>

\* CompositeVideoClip(clips) and engine.render_with_effects: compositing reads
\* attributes of every entry, so a None entry raises; otherwise the video is
\* written with fps=FPS, the name shorts_engine imported, and generate_short
\* returns success.
RenderStep ==
    /\ pc = "render"
    /\ IF \E k \in 1..Len(clips) : clips[k].none
       THEN /\ pc' = "failed"
            /\ result' = Raised("NoneType")
            /\ render' = render
       ELSE /\ pc' = "done"
            /\ result' = [returned |-> TRUE, success |-> TRUE, error |-> "none"]
            /\ render' = [done |-> TRUE, fps |-> shorts_engine_FPS]
    /\ UNCHANGED <<vfx, tq, LayoutGaps, LayoutPositions, layout_call,
                   validation, aud, timing, q_call, q_clip, options_data,
                   opt_call, option_clips, audio_list, producerVars, clips,
                   scale_call, laterVars>>

\* generate_short has returned; the locals of the call are gone, the module
\* state stays.
Return ==
    /\ pc \in {"done", "failed"}
    /\ pc' = "idle"
    /\ aud' = NoAudio
    /\ timing' = NoTiming
    /\ q_call' = NoTypewriterCall
    /\ q_clip' = NoTypewriterClip
    /\ options_data' = <<>>
    /\ opt_call' = NoOptionsCall
    /\ option_clips' = <<>>
    /\ timer_clips' = <<>>
    /\ reveal_call' = NoRevealCall
    /\ reveal_effects' = <<>>
    /\ cta_call' = NoCtaCall
    /\ cta_banner' = NoCtaBanner
    /\ clips' = <<>>
    /\ audio_list' = <<>>
    /\ render' = NoRender
    /\ result' = NoResult
    /\ theme_call' = NoThemeCall
    /\ timer_call' = NoTimerCall
    /\ outro_card' = NoOutroCard
    /\ tts' = NoTasks
    /\ UNCHANGED <<vfx, tq, LayoutGaps, LayoutPositions, layout_call,
                   validation, scale_call, voice_mgr, voice_call, sessions>>

\* ------------------------------------------------------------ direct calls
\* A caller outside generate uses a producer between builds, under the
\* resolution then current (as test_quiz_visuals.py does).
CallTypewriter(word_count, audio_duration, start_time, total_remaining_time, fails) ==
    /\ pc = "idle"
    /\ q_call' = [called |-> TRUE, word_count |-> word_count,
                  audio_duration |-> audio_duration, start_time |-> start_time,
                  total_remaining_time |-> total_remaining_time,
                  fails |-> fails]
    /\ q_clip' = create_typewriter_text(word_count, audio_duration, start_time,
                                        total_remaining_time, fails)
    /\ pc' = "direct"
    /\ UNCHANGED <<vfx, tq, LayoutGaps, LayoutPositions, layout_call,
                   validation, aud, timing, options_data, opt_call,
                   option_clips, audio_list, producerVars, buildVars,
                   scale_call, laterVars>>

\* The four options a direct caller passes: staggered by 0.3 s from s0, shown
\* until 12 s, with externally chosen y positions when has_y.
DirectOptions(s0, has_y) ==
    [k \in 1..4 |->
        Option(s0 + Tenth(3 * (k - 1)),
               HalfSec(24) - (s0 + Tenth(3 * (k - 1))),
               k = 1,
               IF has_y THEN 1200 + (150 * (k - 1)) ELSE None)]

CallOptionsSequence(s0, has_y, use_relative_y, failed) ==
    /\ pc = "idle"
    /\ options_data' = DirectOptions(s0, has_y)
    /\ opt_call' = [called |-> TRUE, use_relative_y |-> use_relative_y,
                    failed |-> failed]
    /\ option_clips' = create_options_sequence(DirectOptions(s0, has_y),
                                               use_relative_y, failed)
    /\ pc' = "direct"
    /\ UNCHANGED <<vfx, tq, LayoutGaps, LayoutPositions, layout_call,
                   validation, aud, timing, q_call, q_clip, audio_list,
                   producerVars, buildVars, scale_call, laterVars>>

\* A direct create_cta_banner call with its own windows and style.
CallCtaBanner(social_start, social_duration, link_start, link_duration, style, cta_y, fails) ==
    /\ pc = "idle"
    /\ cta_call' = [called |-> TRUE, social_start |-> social_start,
                    social_duration |-> social_duration,
                    link_start |-> link_start, link_duration |-> link_duration,
                    style |-> style]
    /\ cta_banner' = create_cta_banner(social_start, social_duration, link_start,
                                       link_duration, style, cta_y, fails)
    /\ pc' = "direct"
    /\ UNCHANGED <<vfx, tq, LayoutGaps, LayoutPositions, layout_call,
                   validation, aud, timing, q_call, q_clip, options_data,
                   opt_call, option_clips, audio_list, timer_clips,
                   reveal_call, reveal_effects, buildVars, scale_call, laterVars>>

\* A direct create_timer_animation call (as test_timer makes).
CallTimer(start_time, duration, y_position, failed) ==
    /\ pc = "idle"
    /\ timer_call' = [called |-> TRUE, start_time |-> start_time,
                      duration |-> duration]
    /\ timer_clips' = create_timer_animation(start_time, duration, y_position,
                                             failed)
    /\ pc' = "direct"
    /\ UNCHANGED <<vfx, tq, LayoutGaps, LayoutPositions, layout_call,
                   validation, aud, timing, q_call, q_clip, options_data,
                   opt_call, option_clips, audio_list, reveal_call,
                   reveal_effects, cta_call, cta_banner, buildVars, scale_call,
                   theme_call, outro_card, serviceVars>>

\* res_scale applied to a, b, a + b and k * a along one dimension.
CallResScale(a, b, k, dimension) ==
    /\ pc = "idle"
    /\ scale_call' = [called |-> TRUE, a |-> a, b |-> b, k |-> k,
                      dimension |-> dimension,
                      of_a |-> res_scale_in(vfx, a, dimension),
                      of_b |-> res_scale_in(vfx, b, dimension),
                      of_sum |-> res_scale_in(vfx, a + b, dimension),
                      of_multiple |-> res_scale_in(vfx, k * a, dimension)]
    /\ pc' = "direct"
    /\ UNCHANGED <<vfx, tq, LayoutGaps, LayoutPositions, layout_call,
                   validation, aud, timing, q_call, q_clip, options_data,
                   opt_call, option_clips, audio_list, producerVars, buildVars,
                   laterVars>>

\* The direct caller is done with the results.
DirectReturn ==
    /\ pc = "direct"
    /\ pc' = "idle"
    /\ q_call' = NoTypewriterCall
    /\ q_clip' = NoTypewriterClip
    /\ options_data' = <<>>
    /\ opt_call' = NoOptionsCall
    /\ option_clips' = <<>>
    /\ cta_call' = NoCtaCall
    /\ cta_banner' = NoCtaBanner
    /\ scale_call' = NoScaleCall
    /\ timer_call' = NoTimerCall
    /\ timer_clips' = <<>>
    /\ UNCHANGED <<vfx, tq, LayoutGaps, LayoutPositions, layout_call,
                   validation, aud, timing, audio_list, reveal_call,
                   reveal_effects, buildVars, theme_call, outro_card,
                   serviceVars>>

\* LayoutGaps.scale_all(), LayoutPositions.calculate for another anchor, and
\* validate_layout.
CallLayout(pip_y, pip_height) ==
    /\ pc = "idle"
    /\ LayoutGaps' = scale_all
    /\ LayoutPositions' = calculate(pip_y, pip_height, scale_all)
    /\ layout_call' = [done |-> TRUE, pip_y |-> pip_y, pip_height |-> pip_height]
    /\ validation' = validate_layout(calculate(pip_y, pip_height, scale_all))
    /\ UNCHANGED <<pc, vfx, tq, aud, timing, q_call, q_clip, options_data,
                   opt_call, option_clips, audio_list, producerVars, buildVars,
                   scale_call, laterVars>>

\* Arguments of the direct calls.
DirectAudioDurations == {HalfSec(7), HalfSec(2)}
DirectStartTimes == {0, HalfSec(2)}
DirectRemaining(a) == {None, a, a + HalfSec(3)}
DirectOptionStarts == {Tenth(6), HalfSec(4)}
DirectAnchorY == {0, res_scale(150)}
DirectAnchorHeight == {res_scale(225), res_scale(495)}
DirectCtaGaps == {0, HalfSec(2), HalfSec(3)}
DirectCtaStyles == {"full-banner", "corner-badge"}
DirectTimerDurations == {3 * TicksPerSecond, 5 * TicksPerSecond}
DirectTimerY == 1550

\* The options (0-indexed) whose TextClip construction may fail.
OptionFailures == {{}, {1}, {3}, 0..3}

\* Failures tried inside a build: none, a partial one, a total one.
BuildTypewriterFailures(word_count) ==
    {NoFailure, [card |-> FALSE, words |-> {0}],
     [card |-> TRUE, words |-> 0..(word_count - 1)]}
BuildOptionFailures == {{}, {3}}
BuildNumeralFailures == {{}, {1}}
BuildCtaFailures == {[social |-> FALSE, link |-> FALSE],
                     [social |-> TRUE, link |-> FALSE]}

\* config['theme'] of the builds.
BuildThemes == {"calm_blue"}

\* config['fps'] values tried with each resolution.
FrameRates(r) == IF r = <<540, 960>> THEN {15} ELSE {24}

\* ------------------------------------------------------------ specification
Next ==
    \/ \E r \in Resolutions : \E fps \in FrameRates(r) :
           \E theme_name \in BuildThemes :
               GenerateSetup(r[1], r[2], fps, theme_name, theme_name)
    \/ \E k \in Segments : \E d \in DurationChoices[k] : SynthesizeAudio(k, d)
    \/ TimingStep
    \/ LayoutStep
    \/ \E hook_fails \in BOOLEAN : HookStep(hook_fails)
    \/ \E n \in {1, MaxWords} :
           \E fails \in BuildTypewriterFailures(PrefixWords + n) :
               QuestionStep(n, fails)
    \/ \E failed \in BuildOptionFailures : OptionsStep(failed)
    \/ \E failed \in BuildNumeralFailures : \E label_fails \in BOOLEAN :
           TimerStep(failed, label_fails)
    \/ \E correct_idx \in 0..3 : RevealStep(correct_idx)
    \/ \E fails \in BuildCtaFailures : CtaStep(fails)
    \/ \E text_fails \in BOOLEAN : OutroStep(text_fails)
    \/ AudioMixStep
    \/ RenderStep
    \/ Return
    \/ \E n \in 0..MaxWordCount : \E a \in DirectAudioDurations :
           \E s \in DirectStartTimes : \E r \in DirectRemaining(a) :
               \E fails \in TypewriterFailures(n) :
                   CallTypewriter(n, a, s, r, fails)
    \/ \E s0 \in DirectOptionStarts : \E has_y \in BOOLEAN :
           \E use_relative_y \in BOOLEAN : \E failed \in OptionFailures :
               CallOptionsSequence(s0, has_y, use_relative_y, failed)
    \/ \E s \in DirectStartTimes : \E gap \in DirectCtaGaps :
           \E d \in DirectAudioDurations : \E style \in DirectCtaStyles :
               \E y \in {None, LayoutPositions.cta_y} : \E fails \in CtaFailures :
                   CallCtaBanner(s, gap, s + gap, d, style, y, fails)
    \/ \E d \in DirectTimerDurations : \E failed \in BuildNumeralFailures :
           CallTimer(TicksPerSecond, d, DirectTimerY, failed)
    \/ DirectReturn
    \/ \E y \in DirectAnchorY : \E h \in DirectAnchorHeight : CallLayout(y, h)

Spec == Init /\ [][Next]_vars

\* ------------------------------------------------------------ the scaler alone
\* Resolutions set_resolution is called with before res_scale is used; the
\* last two are not 9:16, so the three dimensions scale differently.
ScaleResolutions == Resolutions \cup {<<1080, 1080>>, <<720, 1920>>}

\* Values and multipliers res_scale is applied to.
ScaleValues == {-130, -7, 0, 1, 3, 130, 1050}
ScaleMultipliers == {-2, 0, 2, 3}
ScaleDimensions == {"height", "width", "both", "depth"}

ScaleInit == Init

\* set_resolution(width, height, fps) called by itself.
CallSetResolution(width, height, fps) ==
    /\ pc = "idle"
    /\ vfx' = set_resolution(width, height, fps)
    /\ UNCHANGED <<pc, tq, LayoutGaps, LayoutPositions, layout_call, validation,
                   aud, timing, q_call, q_clip, options_data, opt_call,
                   option_clips, audio_list, producerVars, buildVars,
                   scale_call, laterVars>>

ScaleNext ==
    \/ \E r \in ScaleResolutions : \E fps \in {DEFAULT_FPS, 15} :
           CallSetResolution(r[1], r[2], fps)
    \/ \E a \in ScaleValues : \E b \in ScaleValues :
           \E k \in ScaleMultipliers : \E dimension \in ScaleDimensions :
               CallResScale(a, b, k, dimension)
    \/ DirectReturn

ScaleSpec == ScaleInit /\ [][ScaleNext]_vars

\* ------------------------------------------------------------ one plain build
\* The steps of a build after its audio, for a one-word question, answer B
\* and no construction failure.
PlainBuild ==
    \/ TimingStep
    \/ LayoutStep
    \/ HookStep(FALSE)
    \/ QuestionStep(1, NoFailure)
    \/ OptionsStep({})
    \/ TimerStep({}, FALSE)
    \/ RevealStep(1)
    \/ CtaStep([social |-> FALSE, link |-> FALSE])
    \/ OutroStep(FALSE)
    \/ AudioMixStep
    \/ RenderStep
    \/ Return

\* Every narration of a plain build lasts a second and a half.
PlainDuration == 3

\* ------------------------------------------------------------ builds by theme
\* config['theme'] values: the five keys, a name that is no key, no key.
ThemeRequests == ThemeNames \cup {"neon_pink", NoThemeKey}

ThemeInit == Init

ThemeNext ==
    \/ \E r \in {<<1080, 1920>>, <<540, 960>>} :
           \E theme_name \in ThemeRequests : \E random_theme \in ThemeNames :
               GenerateSetup(r[1], r[2], DEFAULT_FPS, theme_name, random_theme)
    \/ \E k \in Segments : SynthesizeAudio(k, PlainDuration)
    \/ PlainBuild

ThemeSpec == ThemeInit /\ [][ThemeNext]_vars

\* ------------------------------------------------------------ the synthesis pool
\* The tasks whose synthesis may fail.
FallibleSegments == {"hook", "opt_d", "cta"}

TtsInit == Init

TtsNext ==
    \/ GenerateSetup(1080, 1920, DEFAULT_FPS, "calm_blue", "calm_blue")
    \/ \E k \in Segments : StartTask(k)
    \/ \E k \in Segments : FinishTask(k, TRUE)
    \/ \E k \in FallibleSegments : FinishTask(k, FALSE)
    \/ \E k \in Segments : CollectResult(k, PlainDuration)
    \/ \E k \in Segments : CollectFailure(k)
    \/ PoolShutdown
    \/ PlainBuild

TtsSpec == TtsInit /\ [][TtsNext]_vars

\* ------------------------------------------------------------ two builds, one process
\* Build s runs "RESOLUTION SETUP": the globals of both modules are assigned.
SessionSetup(s, width, height) ==
    /\ pc = "idle"
    /\ sessions[s].pc = "idle"
    /\ vfx' = set_resolution(width, height, DEFAULT_FPS)
    /\ tq' = [WIDTH |-> width, HEIGHT |-> height, FPS |-> DEFAULT_FPS]
    /\ sessions' = [sessions EXCEPT ![s].pc = "layout", ![s].width = width,
                                    ![s].height = height]
    /\ UNCHANGED <<pc, LayoutGaps, LayoutPositions, layout_call, validation,
                   aud, timing, q_call, q_clip, options_data, opt_call,
                   option_clips, audio_list, producerVars, buildVars,
                   scale_call, theme_call, timer_call, outro_card, tts,
                   voice_mgr, voice_call>>

\* Build s computes PIP_Y and PIP_HEIGHT and runs LayoutGaps.scale_all(),
\* LayoutPositions.calculate and validate_layout on the class attributes.
SessionLayout(s) ==
    /\ pc = "idle"
    /\ sessions[s].pc = "layout"
    /\ LayoutGaps' = scale_all
    /\ LayoutPositions' = calculate(res_scale(150), res_scale(495), scale_all)
    /\ layout_call' = [done |-> TRUE, pip_y |-> res_scale(150),
                       pip_height |-> res_scale(495)]
    /\ validation' = validate_layout(
                         calculate(res_scale(150), res_scale(495), scale_all))
    /\ sessions' = [sessions EXCEPT ![s].pc = "build",
                                    ![s].seen.pip_y = res_scale(150)]
    /\ UNCHANGED <<pc, vfx, tq, aud, timing, q_call, q_clip, options_data,
                   opt_call, option_clips, audio_list, producerVars, buildVars,
                   scale_call, theme_call, timer_call, outro_card, tts,
                   voice_mgr, voice_call>>

\* Build s makes its layers: it reads the canvas size, CARD_START_Y =
\* res_scale(750) and the positions in LayoutPositions.
SessionBuild(s) ==
    /\ pc = "idle"
    /\ sessions[s].pc = "build"
    /\ sessions' = [sessions EXCEPT
                        ![s].pc = "done",
                        ![s].seen.canvas = <<tq.WIDTH, tq.HEIGHT>>,
                        ![s].seen.card_start_y = res_scale(750),
                        ![s].seen.question_y = LayoutPositions.question_y,
                        ![s].seen.cta_y = LayoutPositions.cta_y]
    /\ UNCHANGED <<pc, vfx, tq, LayoutGaps, LayoutPositions, layout_call,
                   validation, aud, timing, q_call, q_clip, options_data,
                   opt_call, option_clips, audio_list, producerVars, buildVars,
                   scale_call, theme_call, timer_call, outro_card, tts,
                   voice_mgr, voice_call>>

\* Build s returns.
SessionReturn(s) ==
    /\ pc = "idle"
    /\ sessions[s].pc = "done"
    /\ sessions' = [sessions EXCEPT ![s] = NoSession]
    /\ UNCHANGED <<pc, vfx, tq, LayoutGaps, LayoutPositions, layout_call,
                   validation, aud, timing, q_call, q_clip, options_data,
                   opt_call, option_clips, audio_list, producerVars, buildVars,
                   scale_call, theme_call, timer_call, outro_card, tts,
                   voice_mgr, voice_call>>

SessionInit == Init

SessionNext ==
    \/ \E s \in SessionIds : \E r \in Resolutions : SessionSetup(s, r[1], r[2])
    \/ \E s \in SessionIds : SessionLayout(s)
    \/ \E s \in SessionIds : SessionBuild(s)
    \/ \E s \in SessionIds : SessionReturn(s)

SessionSpec == SessionInit /\ [][SessionNext]_vars

\* ------------------------------------------------------------ the voice manager
\* Step 1 of generate_audio_with_specific_voice: the provider after looking
\* the voice up; voice_in says which table holds voice_key.
VoiceProvider(voice_in, provider) ==
    IF provider = "google" /\ voice_in = "google" THEN "google"
    ELSE IF provider = "edge" /\ voice_in = "edge" THEN "edge"
    ELSE IF voice_in = "google" THEN "google"
    ELSE IF voice_in = "edge" THEN "edge"
    ELSE "ValueError"

\* Step 3: Google is tried when it was asked for, an engine exists and it has
\* accounts, and an account has quota left.
GoogleTried(mgr, voice_in, provider, account_available) ==
    /\ VoiceProvider(voice_in, provider) = "google"
    /\ mgr.google_engine
    /\ mgr.google_accounts > 0
    /\ account_available

\* The provider when step 4 is reached: Edge after a quota signal or when no
\* account has quota left, else unchanged.
ProviderAfterGoogle(mgr, voice_in, provider, account_available, google_outcome) ==
    IF VoiceProvider(voice_in, provider) = "google"
       /\ mgr.google_engine /\ mgr.google_accounts > 0
    THEN IF ~account_available THEN "edge"
         ELSE IF google_outcome = "QUOTA_EXCEEDED" THEN "edge"
         ELSE "google"
    ELSE VoiceProvider(voice_in, provider)

\* What generate_audio_with_specific_voice does: which engines it calls and
\* whether it returns the Google clip, the Edge clip, or raises.
generate_audio_with_specific_voice(mgr, voice_in, provider, account_available, google_outcome, edge_outcome) ==
    LET google_tried == GoogleTried(mgr, voice_in, provider, account_available)
        served_by_google == google_tried /\ google_outcome = "ok"
        edge_tried ==
            /\ ~served_by_google
            /\ ProviderAfterGoogle(mgr, voice_in, provider, account_available,
                                   google_outcome) = "edge"
    IN  [called |-> TRUE, voice_in |-> voice_in, provider |-> provider,
         account_available |-> account_available,
         google_outcome |-> google_outcome, edge_outcome |-> edge_outcome,
         google_tried |-> google_tried, edge_tried |-> edge_tried,
         outcome |-> IF VoiceProvider(voice_in, provider) = "ValueError"
                     THEN "ValueError"
                     ELSE IF served_by_google THEN "google"
                     ELSE IF edge_tried /\ edge_outcome = "ok" THEN "edge"
                     ELSE "raised"]

\* VoiceManager(): the Google engine exists when account files are found
\* (accounts of them); otherwise FileNotFoundError leaves it None.
CreateVoiceManager(has_account_files, accounts) ==
    /\ pc = "idle"
    /\ voice_mgr' = [created |-> TRUE, google_engine |-> has_account_files,
                     google_accounts |-> IF has_account_files THEN accounts
                                         ELSE 0]
    /\ voice_call' = NoVoiceCall
    /\ UNCHANGED <<pc, vfx, tq, LayoutGaps, LayoutPositions, layout_call,
                   validation, aud, timing, q_call, q_clip, options_data,
                   opt_call, option_clips, audio_list, producerVars, buildVars,
                   scale_call, theme_call, timer_call, outro_card, tts,
                   sessions>>

\* One generate_audio_with_specific_voice call on the manager.
CallGenerateAudio(voice_in, provider, account_available, google_outcome, edge_outcome) ==
    /\ pc = "idle"
    /\ voice_mgr.created
    /\ voice_call' = generate_audio_with_specific_voice(voice_mgr, voice_in,
                         provider, account_available, google_outcome,
                         edge_outcome)
    /\ UNCHANGED <<pc, vfx, tq, LayoutGaps, LayoutPositions, layout_call,
                   validation, aud, timing, q_call, q_clip, options_data,
                   opt_call, option_clips, audio_list, producerVars, buildVars,
                   scale_call, theme_call, timer_call, outro_card, tts,
                   voice_mgr, sessions>>

\* Where voice_key is found, the providers asked for, and what a synthesis
\* reports.
VoiceTables == {"google", "edge", "neither"}
VoiceProviders == {"google", "edge"}
GoogleOutcomes == {"ok", "QUOTA_EXCEEDED", "error"}
EdgeOutcomes == {"ok", "error"}

VoiceInit == Init

VoiceNext ==
    \/ \E has_account_files \in BOOLEAN : \E accounts \in {1, 2} :
           CreateVoiceManager(has_account_files, accounts)
    \/ \E voice_in \in VoiceTables : \E provider \in VoiceProviders :
           \E account_available \in BOOLEAN :
               \E google_outcome \in GoogleOutcomes :
                   \E edge_outcome \in EdgeOutcomes :
                       CallGenerateAudio(voice_in, provider, account_available,
                                         google_outcome, edge_outcome)

VoiceSpec == VoiceInit /\ [][VoiceNext]_vars

\* ------------------------------------------------------------ timeline claims
\* The timing step of the current generate call has run.
TimingDone ==
    pc \in {"layout", "hook", "question", "options", "timer", "reveal", "cta",
            "outro", "mix", "render", "done", "failed"}

\* The eight narrations whose durations the timing step adds up.
SpokenTotal ==
    aud["hook"] + aud["question"] + aud["opt_a"] + aud["opt_b"] + aud["opt_c"]
    + aud["opt_d"] + aud["explanation"] + aud["cta"]

\* C1 as stated: the total duration is the sum of all nine narration
\* durations, 'think' included, plus the 3.0 s think pause and the 4.0 s outro.
C1_TotalIsSumOfNine ==
    TimingDone =>
        timing.total_dur = SpokenTotal + aud["think"] + HalfSec(6) + HalfSec(8)

\* C1 amended: the total duration is the sum of the eight narration durations
\* other than 'think', plus the 3.0 s think pause and the 4.0 s outro; the
\* duration of the 'think' narration is not added.
C1_TotalIsSumOfEight ==
    TimingDone => timing.total_dur = SpokenTotal + HalfSec(6) + HalfSec(8)

C1_Witness == pc = "done" /\ aud["think"] = HalfSec(7) /\ aud["hook"] = 0

\* The absolute start times in segment order, outro last.
StartTimes ==
    << timing.t_hook, timing.t_q, timing.t_a, timing.t_b, timing.t_c,
       timing.t_d, timing.t_think, timing.t_ans, timing.t_cta, timing.t_outro >>

\* C2 as stated: for every non-negative duration set the start times are
\* strictly increasing, hook < question < ... < cta < outro.
C2_StartsStrictlyIncrease ==
    TimingDone =>
        \A i \in 1..(Len(StartTimes) - 1) : StartTimes[i] < StartTimes[i + 1]

\* C2 amended: the start times never decrease, think < answer always, and
\* they are strictly increasing whenever the narrations that separate them
\* have strictly positive durations.
C2_StartsIncrease ==
    TimingDone =>
        /\ \A i \in 1..(Len(StartTimes) - 1) : StartTimes[i] <= StartTimes[i + 1]
        /\ timing.t_think < timing.t_ans
        /\ (\A k \in Segments \ {"think"} : aud[k] > 0) =>
               \A i \in 1..(Len(StartTimes) - 1) :
                   StartTimes[i] < StartTimes[i + 1]

C2_Witness ==
    /\ pc = "layout"
    /\ \A k \in Segments : aud[k] > 0
    /\ aud["question"] = HalfSec(2)

\* C3: on the audio track every voice clip ends no later than the next one
\* starts, the 'think' narration included, which must end by t_ans.
C3_VoiceClipsSequential ==
    pc = "done" =>
        \A i \in 1..(Len(audio_list) - 1) :
            audio_list[i].start + audio_list[i].duration <= audio_list[i + 1].start

\* The durations of the end-to-end scenario: hook 2.0, question 3.5, options
\* 1.5 each, explanation 4.5, cta 2.5 (think pause 3.0 and outro 4.0 fixed).
IsScenario ==
    /\ aud["hook"] = HalfSec(4)
    /\ aud["question"] = HalfSec(7)
    /\ \A k \in {"opt_a", "opt_b", "opt_c", "opt_d"} : aud[k] = HalfSec(3)
    /\ aud["explanation"] = HalfSec(9)
    /\ aud["cta"] = HalfSec(5)

\* C4: in the end-to-end scenario the total duration is 25.5 s, option D's
\* nominal start is 10.0 s and option D's card window begins at 9.4 s.
C4_Scenario ==
    (pc \in {"mix", "done"} /\ IsScenario) =>
        /\ timing.total_dur = HalfSec(51)
        /\ options_data[4].start_time = HalfSec(20)
        /\ \A k \in 1..Len(option_clips) :
               option_clips[k].i = 3 => option_clips[k].start = Tenth(94)

C4_Witness ==
    /\ pc = "mix"
    /\ IsScenario
    /\ \E k \in 1..Len(option_clips) : option_clips[k].i = 3

\* ------------------------------------------------------------ typewriter claims
\* create_typewriter_text was called and returned a layer.
TypewriterBuilt == q_call.called /\ ~q_clip.none

\* Every word-prefix clip of the call was built.
AllWordsBuilt == Len(q_clip.words) = q_call.word_count

RECURSIVE SumDurations(_)
SumDurations(windows) ==
    IF windows = <<>> THEN 0
    ELSE Head(windows).duration + SumDurations(Tail(windows))

\* C5: for a text of N >= 1 words, audio duration A and start time S, the clip
\* of word i (0-indexed, 0 <= i < N) becomes visible at exactly
\* S + i * (0.9 * A / N), stated without division:
\* (start_i - S) * 10 * N = i * 9 * A; there is one such clip per word, in
\* order, when no construction fails.
C5_WordStartTimes ==
    TypewriterBuilt =>
        /\ q_call.word_count >= 1
        /\ \A k \in 1..Len(q_clip.words) :
               /\ q_clip.words[k].i \in 0..(q_call.word_count - 1)
               /\ (q_clip.words[k].start - q_call.start_time)
                      * 10 * q_call.word_count
                  = q_clip.words[k].i * 9 * q_call.audio_duration
        /\ q_call.fails.words = {} =>
               /\ AllWordsBuilt
               /\ \A k \in 1..Len(q_clip.words) : q_clip.words[k].i = k - 1

C5_Witness ==
    /\ TypewriterBuilt
    /\ AllWordsBuilt
    /\ pc = "options"
    /\ q_call.word_count = PrefixWords + MaxWords
    /\ q_call.audio_duration = HalfSec(7)
    /\ q_call.start_time > 0

\* The final hold: the time the final word stays beyond its own word_delay.
FinalHold ==
    q_clip.words[q_call.word_count].duration
    - word_delay(q_call.audio_duration, q_call.word_count)

\* C6: every non-final word's visible window is exactly 0.9 * A / N, and the
\* N words' visible windows, the final hold excluded, add up to exactly
\* 0.9 * A (the sum is over the N clips of a layer in which every word was
\* built).
C6_WindowSum ==
    TypewriterBuilt =>
        /\ \A k \in 1..Len(q_clip.words) :
               q_clip.words[k].i < q_call.word_count - 1 =>
                   q_clip.words[k].duration * 10 * q_call.word_count
                   = 9 * q_call.audio_duration
        /\ AllWordsBuilt =>
               /\ FinalHold >= 0
               /\ 10 * (SumDurations(q_clip.words) - FinalHold)
                  = 9 * q_call.audio_duration

C6_Witness ==
    /\ TypewriterBuilt
    /\ AllWordsBuilt
    /\ pc = "direct"
    /\ q_call.word_count = 3
    /\ q_call.total_remaining_time = None
    /\ FinalHold > 0

\* The built word clips visible at time t.
VisibleAt(t) ==
    {k \in 1..Len(q_clip.words) :
        /\ q_clip.words[k].start <= t
        /\ t < q_clip.words[k].start + q_clip.words[k].duration}

\* End of the visible window of the k-th built word clip.
WindowEnd(k) == q_clip.words[k].start + q_clip.words[k].duration

\* C7: every non-final word's window ends exactly when word i+1's window
\* begins (at S + (i+1) * 0.9 * A / N, and at the start of the next clip when
\* that was built), so the built clip is the only word-prefix clip visible
\* from the first to the last instant of its window, and the windows of a
\* fully built layer leave no gap; the final word's window ends exactly at
\* start_time + total_remaining_time.
C7_Contiguity ==
    TypewriterBuilt =>
        /\ \A k \in 1..Len(q_clip.words) :
               q_clip.words[k].i < q_call.word_count - 1 =>
                   (WindowEnd(k) - q_call.start_time) * 10 * q_call.word_count
                   = (q_clip.words[k].i + 1) * 9 * q_call.audio_duration
        /\ \A k \in 1..(Len(q_clip.words) - 1) :
               q_clip.words[k + 1].i = q_clip.words[k].i + 1 =>
                   WindowEnd(k) = q_clip.words[k + 1].start
        /\ \A k \in 1..Len(q_clip.words) :
               /\ VisibleAt(q_clip.words[k].start) = {k}
               /\ VisibleAt(WindowEnd(k) - 1) = {k}
        /\ AllWordsBuilt =>
               /\ q_clip.words[1].start = q_call.start_time
               /\ \A k \in 1..(Len(q_clip.words) - 1) :
                      WindowEnd(k) = q_clip.words[k + 1].start
        /\ Truthy(q_call.total_remaining_time) =>
               \A k \in 1..Len(q_clip.words) :
                   q_clip.words[k].i = q_call.word_count - 1 =>
                       WindowEnd(k)
                       = q_call.start_time + q_call.total_remaining_time

C7_Witness ==
    /\ TypewriterBuilt
    /\ AllWordsBuilt
    /\ pc = "mix"
    /\ q_call.word_count >= 3
    /\ q_call.total_remaining_time > q_call.audio_duration

\* ------------------------------------------------------------ option card claims
\* Position of the card c at the absolute time t.
CardPositionAt(c, t) == slide_position(t - c.start, c)

\* The card of width w is horizontally centred at x on the current canvas.
Centred(x, w) ==
    /\ 2 * x <= (vfx.WIDTH - w) * SlideScale
    /\ (vfx.WIDTH - w) * SlideScale <= (2 * x) + SlideScale

\* Entrance of the card c of option c.i: the window begins 0.6 s before the
\* nominal start, and from the nominal start on (sampled every 1/20 s over
\* 0.6 s, and at the window's last tick) the card rests centred at the
\* supplied y_position.
EntranceAtSuppliedY(c) ==
    LET s_i == options_data[c.i + 1].start_time
        last == c.start + c.duration - 1
    IN  /\ c.start = s_i - Tenth(6)
        /\ \A t \in {s_i + Twentieth(j) : j \in 0..12} \cup {last} :
               (s_i <= t /\ t <= last) =>
                   /\ CardPositionAt(c, t).y = options_data[c.i + 1].y_position
                   /\ Centred(CardPositionAt(c, t).x, c.OPT_WIDTH)
                   /\ CardPositionAt(c, t) = CardPositionAt(c, last)

\* C8 as stated: the card of every option with an explicit y_position enters
\* 0.6 s early and settles at the supplied y_position.
C8_EntranceWheneverYSupplied ==
    opt_call.called =>
        \A k \in 1..Len(option_clips) :
            options_data[option_clips[k].i + 1].y_position # None =>
                EntranceAtSuppliedY(option_clips[k])

\* C8 amended: the same, for calls with use_relative_y true (the default,
\* and what generate passes).
C8_EntranceWithRelativeY ==
    (opt_call.called /\ opt_call.use_relative_y) =>
        \A k \in 1..Len(option_clips) :
            options_data[option_clips[k].i + 1].y_position # None =>
                EntranceAtSuppliedY(option_clips[k])

\* A call in which the supplied positions differ from the local stack values.
C8_Witness ==
    /\ opt_call.called
    /\ opt_call.use_relative_y
    /\ pc = "direct"
    /\ Len(option_clips) = 4
    /\ \A k \in 1..4 :
           /\ options_data[k].y_position # None
           /\ options_data[k].y_position
              # res_scale(1050) + ((k - 1) * res_scale(130))

\* ------------------------------------------------------------ layout claims
\* Option k's y in the Options Set generate builds from the layout.
OptionY(k) == OptionsData(timing, LayoutPositions, LayoutGaps)[k].y_position

C10_CtaAnchored ==
    layout_call.done =>
        /\ tq.HEIGHT = vfx.HEIGHT
        /\ LayoutPositions.cta_y
           = vfx.HEIGHT - TruncDiv(420 * vfx.HEIGHT, 1920)

C10_Witness ==
    /\ layout_call.done
    /\ vfx.HEIGHT = 960
    /\ pc = "question"
    /\ LayoutPositions.timer_bar_y > LayoutPositions.cta_y

\* ------------------------------------------------------------ validation claims
\* Bottom edge of the timer bar, and top of the reserved band.
TimerBarBottom == LayoutPositions.timer_bar_y + res_scale(50)
ReservedBandTop == tq.HEIGHT - res_scale(400)

\* C11: validate_layout returns not-ok for every layout whose timer bar
\* bottom lies inside the reserved band at the canvas bottom, and reports no
\* reserved-band violation when the timer bar bottom is above the band.
C11_ReservedBandFlagged ==
    validation.done =>
        /\ TimerBarBottom > ReservedBandTop => ~validation.ok
        /\ TimerBarBottom < ReservedBandTop =>
               <<"Bottom safe", "below min">> \notin validation.warnings

\* ------------------------------------------------------------ scaler claims
\* The current size and the canonical size along the dimension of the call:
\* for 'both' the pair with the smaller ratio.
ScaleAxis ==
    IF scale_call.dimension = "height" THEN <<vfx.HEIGHT, 1920>>
    ELSE IF scale_call.dimension = "width" THEN <<vfx.WIDTH, 1080>>
    ELSE IF scale_call.dimension = "both"
         THEN IF vfx.WIDTH * 1920 <= vfx.HEIGHT * 1080
              THEN <<vfx.WIDTH, 1080>> ELSE <<vfx.HEIGHT, 1920>>
    ELSE <<1, 1>>

Abs(x) == IF x >= 0 THEN x ELSE -x

\* C12 as stated: res_scale(value, axis) is value * current / canonical
\* rounded to the nearest integer (at most one half away from it).
C12_ScaleRounds ==
    (scale_call.called /\ scale_call.dimension # "depth") =>
        2 * Abs((scale_call.a * ScaleAxis[1]) - (scale_call.of_a * ScaleAxis[2]))
        <= ScaleAxis[2]

\* C12 amended: res_scale(value, axis) is value * current / canonical
\* truncated toward zero, the ratio being height/1920, width/1080 or the
\* smaller of the two; any other axis name returns the value itself.
C12_ScaleTruncates ==
    scale_call.called =>
        LET p == scale_call.a * ScaleAxis[1]
            r == scale_call.of_a
            c == ScaleAxis[2]
        IN  IF p >= 0 THEN r >= 0 /\ r * c <= p /\ p < (r + 1) * c
            ELSE r <= 0 /\ (r - 1) * c < p /\ p <= r * c

\* A call whose exact product is not an integer and rounds up.
C12_Witness ==
    /\ scale_call.called
    /\ scale_call.dimension = "both"
    /\ vfx.WIDTH * 1920 # vfx.HEIGHT * 1080
    /\ 2 * ((scale_call.a * ScaleAxis[1]) % ScaleAxis[2]) > ScaleAxis[2]
    /\ scale_call.a > 0

\* C13 as stated: res_scale(a + b) = res_scale(a) + res_scale(b) and
\* res_scale(k * a) = k * res_scale(a).
C13_ScaleLinear ==
    scale_call.called =>
        /\ scale_call.of_sum = scale_call.of_a + scale_call.of_b
        /\ scale_call.of_multiple = scale_call.k * scale_call.of_a

\* Excess of the scaled sum over the sum of the scaled values, and of the
\* scaled multiple over the multiple of the scaled value.
SumExcess == scale_call.of_sum - (scale_call.of_a + scale_call.of_b)
MultipleExcess == scale_call.of_multiple - (scale_call.k * scale_call.of_a)

\* C13 amended: res_scale is linear up to truncation.  The scaled sum
\* exceeds the sum of the scaled values by 0 or 1 for a, b >= 0, by 0 or -1
\* for a, b <= 0, and by at most 1 in size otherwise; the scaled multiple
\* differs from the multiple of the scaled value by less than |k|, in the
\* direction of k * a; both are exact at the canonical resolution.
C13_ScaleNearlyLinear ==
    scale_call.called =>
        /\ (scale_call.a >= 0 /\ scale_call.b >= 0) => SumExcess \in {0, 1}
        /\ (scale_call.a <= 0 /\ scale_call.b <= 0) => SumExcess \in {-1, 0}
        /\ SumExcess \in {-1, 0, 1}
        /\ Abs(MultipleExcess) <= Abs(scale_call.k) - 1 \/ MultipleExcess = 0
        /\ scale_call.k * scale_call.a >= 0 => MultipleExcess >= 0
        /\ scale_call.k * scale_call.a <= 0 => MultipleExcess <= 0
        /\ (vfx.WIDTH = BASE_WIDTH /\ vfx.HEIGHT = BASE_HEIGHT) =>
               SumExcess = 0 /\ MultipleExcess = 0

\* A call in which exact linearity fails both ways.
C13_Witness ==
    /\ scale_call.called
    /\ scale_call.dimension = "height"
    /\ SumExcess = 1
    /\ MultipleExcess = 2

\* C14: with the active resolution 1080x1920, res_scale(v, axis) = v for
\* every integer v and every axis.
C14_CanonicalIdentity ==
    (scale_call.called /\ vfx.WIDTH = 1080 /\ vfx.HEIGHT = 1920) =>
        /\ scale_call.of_a = scale_call.a
        /\ scale_call.of_b = scale_call.b
        /\ scale_call.of_sum = scale_call.a + scale_call.b
        /\ scale_call.of_multiple = scale_call.k * scale_call.a

C14_Witness ==
    /\ scale_call.called
    /\ vfx.WIDTH = 1080
    /\ vfx.HEIGHT = 1920
    /\ scale_call.dimension = "width"
    /\ scale_call.a < 0
    /\ scale_call.b = 1050

\* ------------------------------------------------------------ reveal claims
\* The clips of one kind among those the answer reveal returned.
RevealClips(kind) == SelectSeq(reveal_effects, LAMBDA c : c.kind = kind)

\* C15: for every correct-option letter the glow sits at exactly the
\* y_position of that entry of the Options Set given to
\* create_options_sequence (and so where that option's card rests), and
\* there is one dimming overlay for each of the three other options, none for
\* the correct one, each at its option's own y_position and lasting the
\* remaining duration.
C15_RevealReusesPositions ==
    reveal_call.called =>
        LET glows == RevealClips("glow")
            fades == RevealClips("fade")
            correct == reveal_call.correct_idx
        IN  /\ Len(glows) = 1
            /\ glows[1].y = options_data[correct + 1].y_position
            /\ \A j \in 1..Len(option_clips) :
                   option_clips[j].i = correct =>
                       option_clips[j].final_y = glows[1].y
            /\ Len(fades) = 3
            /\ \A k \in 0..3 :
                   IF k = correct
                   THEN \A j \in 1..Len(fades) : fades[j].i # k
                   ELSE \E j \in 1..Len(fades) :
                            /\ fades[j].i = k
                            /\ fades[j].y = options_data[k + 1].y_position
                            /\ fades[j].duration
                               = reveal_call.total_remaining_time
                            /\ fades[j].duration
                               = timing.total_dur - timing.t_ans

C15_Witness ==
    /\ reveal_call.called
    /\ reveal_call.correct_idx = 2
    /\ vfx.HEIGHT = 1280
    /\ Len(option_clips) = 4
    /\ options_data[3].y_position # res_scale(1050) + (2 * res_scale(130))

\* ------------------------------------------------------------ CTA claims
\* The clips of one kind inside the banner create_cta_banner returned.
BannerClips(kind) == SelectSeq(cta_banner.clips, LAMBDA c : c.kind = kind)

\* C16: with social_start <= link_start, the social text's window ends exactly
\* at link_start, the link text's window runs from link_start to link_start +
\* link_duration, and the banner background is one window covering
\* [social_start, link_start + link_duration].
C16_CtaSplit ==
    (cta_call.called /\ ~cta_banner.none
     /\ cta_call.social_start <= cta_call.link_start) =>
        /\ \A j \in 1..Len(BannerClips("social")) :
               LET c == BannerClips("social")[j]
               IN  /\ c.start = cta_call.social_start
                   /\ c.start + c.duration = cta_call.link_start
        /\ \A j \in 1..Len(BannerClips("link")) :
               LET c == BannerClips("link")[j]
               IN  /\ c.start = cta_call.link_start
                   /\ c.start + c.duration
                      = cta_call.link_start + cta_call.link_duration
        /\ Len(BannerClips("social")) <= 1
        /\ Len(BannerClips("link")) <= 1
        /\ Len(BannerClips("banner_bg")) = 1
        /\ BannerClips("banner_bg")[1].start = cta_call.social_start
        /\ BannerClips("banner_bg")[1].start
           + BannerClips("banner_bg")[1].duration
           = cta_call.link_start + cta_call.link_duration

C16_Witness ==
    /\ cta_call.called
    /\ pc = "outro"
    /\ cta_call.social_start < cta_call.link_start
    /\ cta_call.link_duration > 0
    /\ Len(BannerClips("social")) = 1
    /\ Len(BannerClips("link")) = 1

\* ------------------------------------------------------------ layer list claims
\* Place of a layer kind in the order backdrop, picture-in-picture, hook,
\* question, options, timer, answer reveal, CTA, outro; the timer labels count
\* with the timer, the summary card and its shine with the answer reveal.
LayerRank(kind) ==
    CASE kind = "backdrop" -> 1
      [] kind = "pip" -> 2
      [] kind = "hook" -> 3
      [] kind = "question" -> 4
      [] kind = "option" -> 5
      [] kind \in {"timer", "timer_label"} -> 6
      [] kind \in {"reveal", "summary", "shine"} -> 7
      [] kind = "cta" -> 8
      [] kind = "outro" -> 9

\* The list of layers is handed to the compositor.
HandedToCompositor == pc = "render"

\* C17: the list handed to the compositor is in the order backdrop,
\* picture-in-picture, hook, question, options, timer, answer reveal, CTA,
\* outro, each of the nine present.
C17_ZOrder ==
    HandedToCompositor =>
        /\ \A j \in 1..(Len(clips) - 1) :
               LayerRank(clips[j].kind) <= LayerRank(clips[j + 1].kind)
        /\ \A r \in 1..9 :
               \E j \in 1..Len(clips) : LayerRank(clips[j].kind) = r

C17_Witness ==
    /\ HandedToCompositor
    /\ vfx.HEIGHT = 960
    /\ \E j \in 1..Len(clips) : clips[j].kind = "cta"
    /\ \A j \in 1..Len(clips) : ~clips[j].none

\* ------------------------------------------------------------ render claims
\* C18: the frame rate passed to the renderer is the fps of the build's
\* configuration.
C18_ConfiguredFrameRate ==
    render.done => render.fps = tq.FPS

\* C19: the list of layers handed to the compositor contains no null entry,
\* and composition does not stop on one.
C19_NullLayersOmitted ==
    /\ HandedToCompositor => \A j \in 1..Len(clips) : ~clips[j].none
    /\ ~(result.returned /\ result.error = "NoneType")

\* C20: a TextClip construction failure in a single visual element never
\* aborts the build.
C20_LayerFailuresRecoverable ==
    ~(result.returned /\ ~result.success /\ result.error = "TextClip")

\* ------------------------------------------------------------ theme claims
\* The build's configuration names a theme that is not in the table.
UnknownThemeRequested ==
    theme_call.called /\ theme_call.name \notin ThemeNames \cup {NoThemeKey}

\* C21 as stated: a build that names a theme outside the table renders no
\* video.
C21_UnknownThemeFatal ==
    UnknownThemeRequested => ~render.done

\* C21: a build that names a theme outside the table is not aborted for it:
\* get_theme substitutes 'energetic_yellow', and the build goes on with that
\* theme like any other build.
C21_UnknownThemeSubstituted ==
    UnknownThemeRequested =>
        /\ theme_call.resolved = "energetic_yellow"
        /\ pc # "failed"
        /\ result.returned => result.success

C21_Witness ==
    /\ UnknownThemeRequested
    /\ render.done
    /\ result.success
    /\ vfx.HEIGHT = 960

\* ------------------------------------------------------------ synthesis claims
\* The timeline of the current build has been computed.
TimelineComputed == timing # NoTiming

\* C22: in every interleaving of the nine synthesis tasks, at most five of
\* them running, the timeline is computed only after all nine returned; once
\* a task has failed there is no timeline, no layer and no render, and the
\* build ends with success false and an error message.
C22_TtsBarrier ==
    /\ Cardinality({k \in Segments : tts[k] = "running"}) <= max_workers
    /\ TimelineComputed =>
           \A k \in Segments : tts[k] = "done" /\ aud[k] # None
    /\ (\E k \in Segments : tts[k] = "raised") =>
           /\ ~TimelineComputed
           /\ clips = <<>>
           /\ ~render.done
           /\ pc \in {"audio", "aborting", "failed"}
           /\ pc = "failed" => result = Raised("TTS")
    /\ result.returned /\ result.success =>
           \A k \in Segments : tts[k] = "done"

C22_Witness ==
    /\ pc = "failed"
    /\ result = Raised("TTS")
    /\ tts["hook"] = "done"
    /\ aud["hook"] # None
    /\ tts["opt_d"] = "raised"
    /\ tts["cta"] = "done"
    /\ aud["cta"] = None

\* ------------------------------------------------------------ session claims
\* res_scale of a value under build s's own resolution.
OwnScale(s, value) ==
    res_scale_in([WIDTH |-> sessions[s].width, HEIGHT |-> sessions[s].height,
                  FPS |-> DEFAULT_FPS], value, "height")

\* C23: every scaled value and layout position a build has used is the one
\* derived from its own resolution, whatever the other build did meanwhile.
C23_SessionIsolation ==
    \A s \in SessionIds :
        sessions[s].pc = "done" =>
            /\ sessions[s].seen.canvas
               = <<sessions[s].width, sessions[s].height>>
            /\ sessions[s].seen.pip_y = OwnScale(s, 150)
            /\ sessions[s].seen.card_start_y = OwnScale(s, 750)
            /\ sessions[s].seen.question_y
               = OwnScale(s, 150) + OwnScale(s, 495) + OwnScale(s, 20)
                 + OwnScale(s, 130) + OwnScale(s, 30)
            /\ sessions[s].seen.cta_y
               = sessions[s].height - OwnScale(s, 420)

\* ------------------------------------------------------------ voice claims
\* A request for a known voice with the default provider.
DefaultProviderRequest ==
    /\ voice_call.called
    /\ voice_call.provider = "google"
    /\ voice_call.voice_in = "google"

\* Google cannot serve it: no Google account is configured, no account has
\* quota left, or the synthesis reports QUOTA_EXCEEDED.
GoogleCannotServe ==
    \/ ~voice_mgr.google_engine
    \/ voice_mgr.google_accounts = 0
    \/ ~voice_call.account_available
    \/ voice_call.google_outcome = "QUOTA_EXCEEDED"

\* C24: whenever Google cannot serve a request made with the default
\* provider, Edge is asked, and the call returns audio whenever the Edge
\* synthesis succeeds.
C24_FallbackProvider ==
    (DefaultProviderRequest /\ GoogleCannotServe) =>
        /\ voice_call.edge_tried
        /\ voice_call.edge_outcome = "ok" => voice_call.outcome = "edge"

\* ------------------------------------------------------------ duration claims
\* End of the window of entry j of the layer list.
LayerEnd(j) == clips[j].start + clips[j].duration

\* C25: every layer window generate built ends at or before total_dur, so
\* the composited scene lasts total_dur, the duration returned to the caller.
C25_NoLayerOutlivesVideo ==
    (HandedToCompositor /\ \A j \in 1..Len(clips) : ~clips[j].none) =>
        /\ \A j \in 1..Len(clips) : LayerEnd(j) <= timing.total_dur
        /\ LatestEnd(clips) = timing.total_dur

\* ------------------------------------------------------------ countdown claims
\* The progress segments and the numerals of the last timer built, in the
\* order create_timer_animation returned them.
TimerSegments == SelectSeq(timer_clips, LAMBDA c : c.kind = "segment")

TimerNumerals == SelectSeq(timer_clips, LAMBDA c : c.kind = "numeral")

\* The timer was built by the pipeline, not by a direct call.
PipelineTimer == timer_call.called /\ pc \notin {"idle", "direct"}

\* C26: for a timer with start time s and duration D there are ten progress
\* segments, segment i appears at exactly s + i*D/10, in increasing index
\* order, and every segment's window ends exactly at s + D; the pipeline's
\* timer window is [t_think, t_ans].
C26_ProgressSegments ==
    timer_call.called =>
        LET s == timer_call.start_time
            D == timer_call.duration
        IN  /\ Len(TimerSegments) = 10
            /\ \A k \in 1..Len(TimerSegments) :
                  /\ TimerSegments[k].i = k - 1
                  /\ 10 * TimerSegments[k].start = (10 * s) + ((k - 1) * D)
                  /\ TimerSegments[k].start + TimerSegments[k].duration = s + D
            /\ \A k \in 1..(Len(TimerSegments) - 1) :
                  TimerSegments[k].start < TimerSegments[k + 1].start
            /\ PipelineTimer =>
                  /\ s = timing.t_think
                  /\ s + D = timing.t_ans

\* A pipeline timer has been built and the build has moved on to the reveal.
C26_Witness ==
    /\ pc = "reveal"
    /\ timer_call.called
    /\ Len(TimerSegments) = 10
    /\ timing.t_ans = timing.t_think + THINK_TIME

\* C27: for a timer with start time s and a duration of D whole seconds, each
\* numeral k shown occupies the 1-second window starting at s + (D - k), the
\* numerals come in decreasing order with pairwise disjoint windows, and when
\* all D numerals were built they are D, D-1, ..., 1 and their windows cover
\* [s, s + D].
C27_CountdownNumerals ==
    timer_call.called =>
        LET s == timer_call.start_time
            D == timer_call.duration \div TicksPerSecond
            n == TimerNumerals
        IN  /\ \A k \in 1..Len(n) :
                  /\ n[k].number \in 1..D
                  /\ n[k].start = s + ((D - n[k].number) * TicksPerSecond)
                  /\ n[k].duration = TicksPerSecond
            /\ \A k \in 1..(Len(n) - 1) :
                  /\ n[k].number > n[k + 1].number
                  /\ n[k].start + n[k].duration <= n[k + 1].start
            /\ Len(n) = D =>
                  /\ \A k \in 1..D : n[k].number = D - (k - 1)
                  /\ n[1].start = s
                  /\ \A k \in 1..(D - 1) :
                        n[k].start + n[k].duration = n[k + 1].start
                  /\ n[D].start + n[D].duration = s + timer_call.duration

\* A directly built 5-second timer whose five numerals were all created.
C27_Witness ==
    /\ pc = "direct"
    /\ timer_call.called
    /\ timer_call.duration = 5 * TicksPerSecond
    /\ Len(TimerNumerals) = 5

\* ------------------------------------------------------------ correctness flag
\* Positions (1-indexed) of the entries of the Options Set flagged correct.
FlaggedCorrect == {k \in 1..Len(options_data) : options_data[k].is_correct}

\* The pipeline has built its Options Set and its answer reveal.
PipelineRevealed == reveal_call.called /\ pc \notin {"idle", "direct"}

\* C28: in the Options Set generate builds, exactly one of the four entries
\* has is_correct true, and it is the entry of the script's correct option,
\* the one the answer reveal highlights.
C28_CorrectnessFlag ==
    PipelineRevealed =>
        /\ Len(options_data) = 4
        /\ FlaggedCorrect = {reveal_call.correct_idx + 1}

\* ------------------------------------------------------------ canvas claims
\* C29: for every configured resolution, the outro card create_outro builds
\* has the current canvas width and height of the build, not the canonical
\* 1080x1920.
C29_OutroUsesCurrentCanvas ==
    outro_card.built =>
        /\ outro_card.width = tq.WIDTH
        /\ outro_card.height = tq.HEIGHT

\* The pipeline has built its CTA banner.
PipelineBanner ==
    /\ cta_call.called
    /\ ~cta_banner.none
    /\ pc \notin {"idle", "direct"}

\* Option card c is on screen at some time of the CTA window
\* [t_cta, t_outro].
VisibleDuringCta(c) ==
    /\ c.start <= timing.t_outro
    /\ c.start + c.duration >= timing.t_cta

\* The closed intervals [a, a + h] and [b, b + g] do not intersect.
Disjoint(a, h, b, g) == (a + h < b) \/ (b + g < a)

\* C30: in the layout the pipeline computes, the CTA banner's extent
\* [cta_y, cta_y + scale(140)] does not intersect the extent
\* [y_k, y_k + scale(100)] of any option card visible during the CTA window.
C30_CtaClearOfOptions ==
    PipelineBanner =>
        \A k \in 1..Len(option_clips) :
            VisibleDuringCta(option_clips[k]) =>
                Disjoint(option_clips[k].final_y, res_scale(100),
                         cta_banner.clips[1].y, res_scale(140))

====
